---- MODULE Spec2Model ----
(***************************************************************************)
(* Verification model of the rustlf core of tlf (jothan/tlf):              *)
(*   - the Start/Stop Gate and the background loop                          *)
(*       (src/rustlf/src/background_process.rs)                             *)
(*   - the Task Queue WorkSender / Worker (src/rustlf/src/workqueue.rs)     *)
(*   - the keying byte queue and its drain (src/rustlf/src/write_keyer.rs)  *)
(* Each subsystem has its own specification (SpecGate, SpecQueue,           *)
(* SpecKeyer); the variables of the other subsystems stay at their initial  *)
(* values under it.                                                         *)
(***************************************************************************)
EXTENDS Integers, Sequences, FiniteSets, TLC

VARIABLES
    \* ---- Start/Stop Gate and background loop (background_process.rs)
    stopped,          \* StopFlags.stopped
    stop_request,     \* StopFlags.stop_request
    bgpc,             \* position of the background thread in its loop
    fgpc,             \* position of the foreground thread w.r.t. the gate
    fldigi_rpc_cnt,   \* local of background_process
    bgdid,            \* last unit of work the background thread performed
    sendersAlive,     \* some WorkSender<BackgroundContext> still exists
    gateCfg,          \* [rig, fldigi]: rig.is_some(), fldigi polling enabled
    quiesced          \* history: a stop call returned and no start was called since

gateVars == <<stopped, stop_request, bgpc, fgpc, fldigi_rpc_cnt, bgdid,
              sendersAlive, gateCfg, quiesced>>

VARIABLES
    \* ---- Task Queue (workqueue.rs)
    wq,               \* the flume channel: queued work items, oldest first
    ctx,              \* the Context the Worker runs closures against
    wpc,              \* Worker position: recv | running | away | exited
    wcur,             \* the work item the Worker is executing
    workerAlive,      \* the Worker (Receiver) has not been dropped
    ppc,              \* per WorkSender handle: idle | sending | waiting | gone
    pcall,            \* per handle: its latest schedule_* call
    presult,          \* per handle: what its last schedule_* call returned
    reply,            \* per handle: the oneshot reply channel of schedule_wait
    submitted,        \* per handle: number of items it has enqueued
    lastRun,          \* history, per handle: its item executed last
    log               \* history: the items the Worker executed, in order

queueVars == <<wq, ctx, wpc, wcur, workerAlive, ppc, pcall, presult, reply,
               submitted, lastRun, log>>

VARIABLES
    \* ---- Keying byte queue (write_keyer.rs)
    buf,                  \* KEYER_QUEUE: the ring buffer's bytes, index 0..size-1
    bbwrite,              \* KEYER_QUEUE.write
    bbread,               \* KEYER_QUEUE.read
    bblast,               \* KEYER_QUEUE.last
    bbreserve,            \* KEYER_QUEUE.reserve
    write_in_progress,    \* KEYER_QUEUE.write_in_progress
    read_in_progress,     \* KEYER_QUEUE.read_in_progress
    KEYER_FLUSH_REQUEST,  \* the atomic flush flag
    trxmode,              \* tlf::trxmode
    kcfg,                 \* [cwkeyer, digikeyer]: tlf::cwkeyer, tlf::digikeyer
    plock,                \* holder of the KEYER_PRODUCER mutex, or "none"
    apc,                  \* per appending thread: idle | grant | commit
    atext,                \* per appending thread: the input not yet copied
    wgrant,               \* the producer's write grant: [start, sz]
    kpc,                  \* write_keyer position: idle | split | granted
    do_flush,             \* write_keyer's local do_flush
    rgrant,               \* the consumer's split read grant
    panicked,             \* "none", or the function whose panic ended the process
    shadow,               \* history: bytes accepted and not yet released, in order
    lastWriter,           \* history: appending thread whose chunk was committed last
    acall,                \* history, per appending thread: its call in progress
    event                 \* what the step just taken returned or emitted

keyerVars == <<buf, bbwrite, bbread, bblast, bbreserve, write_in_progress,
               read_in_progress, KEYER_FLUSH_REQUEST, trxmode, kcfg, plock, apc,
               atext, wgrant, kpc, do_flush, rgrant, panicked, shadow,
               lastWriter, acall, event>>

VARIABLES
    \* ---- Netkeyer session (netkeyer.rs)
    nkcall,               \* the last Netkeyer method called and its argument
    nkres,                \* what it returned: Ok | InvalidParameter | IO | none
    nksent,               \* the datagrams it passed to socket.send_to, in order
    sc_volume             \* tlf::sc_volume, the configured sidetone volume

netVars == <<nkcall, nkres, nksent, sc_volume>>

VARIABLES
    \* ---- Rig controller (hamlib.rs)
    now,                  \* Instant::now(), in milliseconds
    rigpc,                \* the Rig value: unopened | live | dropped | failed
    rigcfg,               \* RigConfig and capabilities: [want_ptt, has_ptt]
    rig_opened,           \* Rig.opened
    use_ptt,              \* Rig.use_ptt
    ptt_state,            \* Rig.ptt_state
    use_keyer,            \* Rig.use_keyer
    cw_bandwidth,         \* Rig.cw_bandwidth: Option
    state,                \* Rig.state: Option<RigState>
    rig_released,         \* history: rig_close / rig_cleanup calls made by drop
    lastAccess,           \* history: time of the last poll that read the hardware
    ptt_written,          \* history: last value rig_set_ptt wrote successfully
    revent                \* what the rig operation just run did

rigVars == <<now, rigpc, rigcfg, rig_opened, use_ptt, ptt_state, use_keyer,
             cw_bandwidth, state, rig_released, lastAccess, ptt_written,
             revent>>

VARIABLES
    \* ---- Band lookup (bands.rs)
    bfreq,                \* the frequency passed to freq2bandindex
    bresult               \* <<>> before the call, <<its return value>> after

bandVars == <<bfreq, bresult>>

VARIABLES
    \* ---- Rig entry points and the thread that holds the Rig
    \*      (foreground.rs foreground_init / hamlib_init, hamlib.rs 604-722)
    trx_control,          \* tlf::trx_control
    fg_stage,             \* foreground thread: init | opening | ready | waiting | panicked
    bg_stage,             \* background thread: unstarted | idle | in_item | in_poll | panicked
    rig_holder,           \* thread that owns the Rig value: none | fg | bg
    bg_queue,             \* the background Task Queue: rig closures, oldest first
    bg_item,              \* the closure the background thread is running
    in_call,              \* per thread: the rig-handle call it is inside, or "none"
    eevent                \* what the entry point just called did

entryVars == <<trx_control, fg_stage, bg_stage, rig_holder, bg_queue, bg_item,
               in_call, eevent>>

VARIABLES
    \* ---- Worker::process_blocking (workqueue.rs lines 95-126)
    pb_pc,                \* calling thread: idle | select | running | joining | returned
    pb_helper,            \* spawned task: none | running | sent | ended
    done_ch,              \* messages in the bounded(1) done channel
    pb_queue,             \* self.handle: queued work items, oldest first
    pb_senders,           \* some WorkSender of this queue still exists
    pb_cur,               \* the work item being executed, 0 when none
    block_res,            \* local block_res: Option
    recv_error,           \* local recv_error: Ok | Disconnected
    pb_ret,               \* <<>> before the return, <<[res, err]>> after
    pb_submitted,         \* number of items submitted so far
    op_result,            \* history: what blocking_op() returned
    pb_log                \* history: [item, by] for every executed item, in order

blockVars == <<pb_pc, pb_helper, done_ch, pb_queue, pb_senders, pb_cur,
               block_res, recv_error, pb_ret, pb_submitted, op_result, pb_log>>

VARIABLES
    \* ---- Worker::process_until's deadline (workqueue.rs lines 72-93)
    expired               \* Instant::now() has reached the current deadline

deadlineVars == <<expired>>

VARIABLES
    \* ---- Netkeyer with a cached sidetone volume (newtlf/netkeyer.rs); the
    \*      cache, Netkeyer.sc_volume, is the variable sc_volume
    last_volume           \* history: [requested, accepted], each an Option: the
                          \* argument of the caller's last set_sidetone_volume
                          \* call, and of the last one that passed the check

cacheVars == <<last_volume>>

VARIABLES
    \* ---- CW speed (cw_utils.rs) and the rig's keyer speed (hamlib.rs 274-331)
    SPEED,                \* cw_utils::SPEED, an index into SPEEDS (0-based)
    rig_keyspd,           \* the rig's RIG_LEVEL_KEYSPD
    keyer_sync,           \* open_rig's keyer part: pending | done | failed
    sevent                \* what the speed operation just run did

speedVars == <<SPEED, rig_keyspd, keyer_sync, sevent>>

\* The subsystems modelled after the band lookup.
moreVars == <<entryVars, blockVars, deadlineVars, cacheVars, speedVars>>

vars == <<gateVars, queueVars, keyerVars, netVars, rigVars, bandVars, moreVars>>

\* What the actions of one subsystem leave alone.
notGate == <<queueVars, keyerVars, netVars, rigVars, bandVars, moreVars>>
notQueue == <<gateVars, keyerVars, netVars, rigVars, bandVars, moreVars>>
notKeyer == <<gateVars, queueVars, netVars, rigVars, bandVars, moreVars>>
notNet == <<gateVars, queueVars, keyerVars, rigVars, bandVars, moreVars>>
notRig == <<gateVars, queueVars, netVars, bandVars, moreVars>>
notBand == <<gateVars, queueVars, keyerVars, netVars, rigVars, moreVars>>
notMore == <<gateVars, queueVars, keyerVars, netVars, rigVars, bandVars>>
notEntry == <<notMore, blockVars, deadlineVars, cacheVars, speedVars>>
notBlock == <<notMore, entryVars, deadlineVars, cacheVars, speedVars>>
notDeadline == <<gateVars, keyerVars, netVars, rigVars, bandVars, entryVars,
                 blockVars, cacheVars, speedVars>>
notCache == <<gateVars, queueVars, keyerVars, rigVars, bandVars, entryVars,
              blockVars, deadlineVars, speedVars>>
notSpeed == <<notMore, entryVars, blockVars, deadlineVars, cacheVars>>

----------------------------------------------------------------------------
(* Start/Stop Gate: background_process.rs lines 13-54.                     *)
(* STOP_PROCESS is a Mutex; every critical section below is one action.     *)
(* A thread inside Condvar::wait_while is either blocked on the condition   *)
(* variable ("parked" / "stop_wait") or has been woken and is about to      *)
(* re-evaluate its predicate under the mutex ("woken" / "stop_woken").      *)

GatePcs == {"parked", "woken"}

\* A mutation of the STOPPED_COND notification: nobody is woken.
NotifyStoppedNobody(pc) == pc

\* STOPPED_COND.notify_all(): a foreground thread blocked in
\* stop_background_process is woken.
NotifyStopped(pc) == IF pc = "stop_wait" THEN "stop_woken" ELSE pc

\* A mutation of the START_COND notification: nobody is woken.
NotifyStartNobody(pc) == pc

\* START_COND.notify_all(): a background thread blocked at the gate is woken.
NotifyStart(pc) == IF pc = "parked" THEN "woken" ELSE pc

GateInit ==
    /\ stopped = FALSE
    /\ stop_request = TRUE
    /\ bgpc = "wait"
    /\ fgpc = "run"
    /\ fldigi_rpc_cnt = FALSE
    /\ bgdid = "none"
    /\ sendersAlive = TRUE
    /\ gateCfg \in [rig : BOOLEAN, fldigi : BOOLEAN]
    /\ quiesced = FALSE

\* stop_background_process(): set stop_request, then wait_while(!stopped).
\* wait_while evaluates the predicate before blocking.
StopBackgroundProcess ==
    /\ fgpc = "run"
    /\ stop_request' = TRUE
    /\ IF stopped
          THEN /\ fgpc' = "run"
               /\ quiesced' = TRUE
          ELSE /\ fgpc' = "stop_wait"
               /\ quiesced' = quiesced
    /\ UNCHANGED notGate
    /\ UNCHANGED <<stopped, bgpc, fldigi_rpc_cnt, bgdid, sendersAlive, gateCfg>>

\* The foreground thread, woken inside STOPPED_COND.wait_while, re-checks.
StopRecheck ==
    /\ fgpc = "stop_woken"
    /\ IF stopped
          THEN /\ fgpc' = "run"
               /\ quiesced' = TRUE
          ELSE /\ fgpc' = "stop_wait"
               /\ quiesced' = quiesced
    /\ UNCHANGED notGate
    /\ UNCHANGED <<stopped, stop_request, bgpc, fldigi_rpc_cnt, bgdid,
                   sendersAlive, gateCfg>>

\* start_background_process(): clear stop_request, notify START_COND.
StartBackgroundProcess ==
    /\ fgpc = "run"
    /\ stop_request' = FALSE
    /\ bgpc' = NotifyStart(bgpc)
    /\ quiesced' = FALSE
    /\ UNCHANGED notGate
    /\ UNCHANGED <<stopped, fgpc, fldigi_rpc_cnt, bgdid, sendersAlive, gateCfg>>

\* A condition variable may wake a waiter spuriously.
SpuriousWakeup ==
    /\ \/ /\ bgpc = "parked"
          /\ bgpc' = "woken"
          /\ fgpc' = fgpc
       \/ /\ fgpc = "stop_wait"
          /\ fgpc' = "stop_woken"
          /\ bgpc' = bgpc
    /\ UNCHANGED notGate
    /\ UNCHANGED <<stopped, stop_request, fldigi_rpc_cnt, bgdid, sendersAlive,
                   gateCfg, quiesced>>

\* The foreground thread ends: its BACKGROUND_HANDLE thread-local is dropped.
ForegroundExit ==
    /\ fgpc = "run"
    /\ sendersAlive
    /\ fgpc' = "gone"
    /\ sendersAlive' = FALSE
    /\ UNCHANGED notGate
    /\ UNCHANGED <<stopped, stop_request, bgpc, fldigi_rpc_cnt, bgdid, gateCfg,
                   quiesced>>

\* A mutation of background_process_wait: marks itself stopped and notifies,
\* but goes on with the cycle instead of blocking on START_COND.
BackgroundProcessWaitNoBlock ==
    /\ bgpc = "wait"
    /\ IF stop_request
          THEN /\ stopped' = TRUE
               /\ fgpc' = NotifyStopped(fgpc)
          ELSE /\ UNCHANGED <<stopped, fgpc>>
    /\ bgpc' = "process"
    /\ UNCHANGED notGate
    /\ UNCHANGED <<stop_request, fldigi_rpc_cnt, bgdid, sendersAlive, gateCfg,
                   quiesced>>

\* background_process_wait(), entry: lock; if stop_request then mark stopped,
\* notify STOPPED_COND and block in START_COND.wait_while(stop_request).
BackgroundProcessWait ==
    /\ bgpc = "wait"
    /\ IF stop_request
          THEN /\ stopped' = TRUE
               /\ fgpc' = NotifyStopped(fgpc)
               /\ bgpc' = "parked"
          ELSE /\ bgpc' = "process"
               /\ UNCHANGED <<stopped, fgpc>>
    /\ UNCHANGED notGate
    /\ UNCHANGED <<stop_request, fldigi_rpc_cnt, bgdid, sendersAlive, gateCfg,
                   quiesced>>

\* background_process_wait(), woken inside wait_while: re-check stop_request
\* under the mutex; leave the gate (stopped = false) once it is clear.
BackgroundProcessResume ==
    /\ bgpc = "woken"
    /\ IF stop_request
          THEN /\ bgpc' = "parked"
               /\ stopped' = stopped
          ELSE /\ bgpc' = "process"
               /\ stopped' = FALSE
    /\ UNCHANGED notGate
    /\ UNCHANGED <<stop_request, fgpc, fldigi_rpc_cnt, bgdid, sendersAlive,
                   gateCfg, quiesced>>

\* worker.process_sleep(&mut rig, 10 ms): queued closures run until the
\* deadline; a disconnected queue ends the thread (lines 82-88).  A queued
\* rig closure calls rig.as_mut().unwrap() (hamlib.rs lines 695, 705, 719),
\* which panics on the background thread when no rig was opened.
BgProcessSleep ==
    /\ bgpc = "process"
    /\ IF sendersAlive
          THEN \/ /\ bgpc' = "fldigi"
                  /\ bgdid' \in {bgdid, "task"}
               \/ /\ ~gateCfg.rig
                  /\ bgpc' = "panicked"
                  /\ bgdid' = "task"
          ELSE /\ bgpc' = "exited"
               /\ bgdid' = bgdid
    /\ UNCHANGED notGate
    /\ UNCHANGED <<stopped, stop_request, fgpc, fldigi_rpc_cnt, sendersAlive,
                   gateCfg, quiesced>>

\* receive_packet, rx_rtty and the every-other-cycle fldigi queries
\* (lines 90-113).
BgFldigi ==
    /\ bgpc = "fldigi"
    /\ IF gateCfg.fldigi /\ gateCfg.rig
          THEN /\ fldigi_rpc_cnt' = ~fldigi_rpc_cnt
               /\ bgdid' = IF fldigi_rpc_cnt THEN "fldigi" ELSE bgdid
          ELSE UNCHANGED <<fldigi_rpc_cnt, bgdid>>
    /\ bgpc' = "keyer"
    /\ UNCHANGED notGate
    /\ UNCHANGED <<stopped, stop_request, fgpc, sendersAlive, gateCfg, quiesced>>

\* if !is_background_process_stopped() { cqww_simulator(); write_keyer(..) }
\* (lines 115-118); is_background_process_stopped reads stop_request.
\* write_keyer panics when the drained text holds a NUL byte
\* (write_keyer.rs lines 114-115); the queue's content is not part of the
\* gate's state, so the outcome is a choice here.
BgSimulatorAndKeyer ==
    /\ bgpc = "keyer"
    /\ IF ~stop_request
          THEN /\ bgdid' = "sim_drain"
               /\ bgpc' \in {"lan", "panicked"}
          ELSE /\ bgdid' = bgdid
               /\ bgpc' = "lan"
    /\ UNCHANGED notGate
    /\ UNCHANGED <<stopped, stop_request, fgpc, fldigi_rpc_cnt, sendersAlive,
                   gateCfg, quiesced>>

\* handle_lan_recv (line 120).
BgLan ==
    /\ bgpc = "lan"
    /\ bgdid' = "lan"
    /\ bgpc' = "poll"
    /\ UNCHANGED notGate
    /\ UNCHANGED <<stopped, stop_request, fgpc, fldigi_rpc_cnt, sendersAlive,
                   gateCfg, quiesced>>

\* rig.poll() when a rig is configured; an error is logged and the loop goes on
\* (lines 122-127).
BgPoll ==
    /\ bgpc = "poll"
    /\ IF gateCfg.rig THEN bgdid' \in {"poll", "poll_err"} ELSE bgdid' = bgdid
    /\ bgpc' = "wait"
    /\ UNCHANGED notGate
    /\ UNCHANGED <<stopped, stop_request, fgpc, fldigi_rpc_cnt, sendersAlive,
                   gateCfg, quiesced>>

GateNext ==
    \/ StopBackgroundProcess
    \/ StopRecheck
    \/ StartBackgroundProcess
    \/ SpuriousWakeup
    \/ ForegroundExit
    \/ BackgroundProcessWait
    \/ BackgroundProcessResume
    \/ BgProcessSleep
    \/ BgFldigi
    \/ BgSimulatorAndKeyer
    \/ BgLan
    \/ BgPoll


----------------------------------------------------------------------------
(* C1: from the return of stop_background_process until the next            *)
(* start_background_process the background thread is parked inside          *)
(* background_process_wait (so it runs no task, no drain, no simulator      *)
(* step, no poll); and stopped = true only while it is at the gate.         *)
C1_QuiescentWhileStopped ==
    /\ quiesced => (bgpc \in GatePcs /\ stopped)
    /\ stopped => bgpc \in GatePcs

\* The background thread has run cycles, then a stop call returned.
C1_Witness ==
    /\ quiesced
    /\ bgdid \in {"lan", "poll"}
    /\ bgpc = "parked"

----------------------------------------------------------------------------
(* Task Queue: workqueue.rs.  The channel is flume::bounded(size); the      *)
(* reply channel of schedule_wait is a oneshot channel.                     *)

\* Capacity of the background queue (foreground.rs line 15 sets 16; the
\* model uses a smaller queue so that the full queue is reached).
BACKGROUND_QUEUE_SIZE == 2

\* Each handle enqueues at most this many items.
MaxSubmits == 2

\* Threads holding a WorkSender<BackgroundContext>: the foreground thread and
\* the play-sound thread (background_process.rs lines 139-171).
Producers == {"fg", "audio"}

\* Closures: "add1" is |ctx| ctx.value + 1; "swap" stores arg and returns the
\* previous value.
Fns == {[op |-> "add1", arg |-> 0], [op |-> "swap", arg |-> 7]}

NoFn == [op |-> "none", arg |-> 0]
NoCall == [kind |-> "none", fn |-> NoFn]
NoItem == [from |-> "none", n |-> 0, kind |-> "none", fn |-> NoFn]
NoReply == [st |-> "none", val |-> 0]
NoRun == [n |-> 0, fn |-> NoFn, ctxAt |-> 0]
Result(tag, v) == [tag |-> tag, val |-> v]

\* What running closure fn against context value c returns / leaves behind.
FnReturn(fn, c) == IF fn.op = "add1" THEN c + 1 ELSE c
FnContext(fn, c) == IF fn.op = "swap" THEN fn.arg ELSE c

\* A mutation of the channel receive: takes the newest item.
RecvNewest(q) == [item |-> q[Len(q)], rest |-> SubSeq(q, 1, Len(q) - 1)]

\* handle.recv_deadline(): the channel hands out its oldest item.
Recv(q) == [item |-> Head(q), rest |-> Tail(q)]

\* A mutation of the work closure of schedule_raw: replies with the context
\* value instead of f's return value.
ReplyValueCtx(fn, c) == c

\* schedule_raw's work closure: sender.send(f(c)) (line 38).
ReplyValue(fn, c) == FnReturn(fn, c)

QueueInit ==
    /\ wq = <<>>
    /\ ctx = 41
    /\ wpc = "recv"
    /\ wcur = NoItem
    /\ workerAlive = TRUE
    /\ ppc = [p \in Producers |-> "idle"]
    /\ pcall = [p \in Producers |-> NoCall]
    /\ presult = [p \in Producers |-> Result("none", 0)]
    /\ reply = [p \in Producers |-> NoReply]
    /\ submitted = [p \in Producers |-> 0]
    /\ lastRun = [p \in Producers |-> NoRun]
    /\ log = <<>>

\* handle.send(item) on the bounded channel, from the state in which handle p
\* is calling (call c): Err when the Receiver is gone, enqueue when there is
\* room, otherwise the calling thread blocks inside send.
Send(p, c) ==
    IF ~workerAlive
       THEN /\ presult' = [presult EXCEPT ![p] = Result("SendError", 0)]
            /\ ppc' = [ppc EXCEPT ![p] = "idle"]
            /\ pcall' = [pcall EXCEPT ![p] = c]
            /\ UNCHANGED <<wq, submitted, reply>>
       ELSE IF Len(wq) < BACKGROUND_QUEUE_SIZE
               THEN /\ wq' = Append(wq, [from |-> p, n |-> submitted[p] + 1,
                                          kind |-> c.kind, fn |-> c.fn])
                    /\ submitted' = [submitted EXCEPT ![p] = @ + 1]
                    /\ pcall' = [pcall EXCEPT ![p] = c]
                    /\ IF c.kind = "wait"
                          THEN /\ ppc' = [ppc EXCEPT ![p] = "waiting"]
                               /\ reply' = [reply EXCEPT ![p] = [st |-> "empty", val |-> 0]]
                               /\ presult' = [presult EXCEPT ![p] = Result("none", 0)]
                          ELSE /\ ppc' = [ppc EXCEPT ![p] = "idle"]
                               /\ presult' = [presult EXCEPT ![p] = Result("Sent", 0)]
                               /\ reply' = reply
               ELSE /\ ppc' = [ppc EXCEPT ![p] = "sending"]
                    /\ pcall' = [pcall EXCEPT ![p] = c]
                    /\ presult' = [presult EXCEPT ![p] = Result("none", 0)]
                    /\ UNCHANGED <<wq, submitted, reply>>

\* schedule_nowait(f), lines 55-64.
ScheduleNowait(p, fn) ==
    /\ ppc[p] = "idle"
    /\ submitted[p] < MaxSubmits
    /\ Send(p, [kind |-> "nowait", fn |-> fn])
    /\ UNCHANGED notQueue
    /\ UNCHANGED <<ctx, wpc, wcur, workerAlive, lastRun, log>>

\* schedule_wait(f), lines 48-53: schedule_raw (lines 31-46), then recv().
ScheduleWait(p, fn) ==
    /\ ppc[p] = "idle"
    /\ submitted[p] < MaxSubmits
    /\ Send(p, [kind |-> "wait", fn |-> fn])
    /\ UNCHANGED notQueue
    /\ UNCHANGED <<ctx, wpc, wcur, workerAlive, lastRun, log>>

\* A thread blocked inside handle.send() proceeds once there is room, or
\* fails once the Receiver is gone.
SendUnblock(p) ==
    /\ ppc[p] = "sending"
    /\ ~workerAlive \/ Len(wq) < BACKGROUND_QUEUE_SIZE
    /\ Send(p, pcall[p])
    /\ UNCHANGED notQueue
    /\ UNCHANGED <<ctx, wpc, wcur, workerAlive, lastRun, log>>

\* schedule_wait: receiver.recv() returns the reply, or fails when the reply
\* sender was dropped unused (line 52).
ScheduleWaitReturn(p) ==
    /\ ppc[p] = "waiting"
    /\ reply[p].st \in {"full", "dropped"}
    /\ presult' = [presult EXCEPT ![p] =
                      IF reply[p].st = "full" THEN Result("Ok", reply[p].val)
                                              ELSE Result("WorkDropped", 0)]
    /\ reply' = [reply EXCEPT ![p] = NoReply]
    /\ ppc' = [ppc EXCEPT ![p] = "idle"]
    /\ UNCHANGED notQueue
    /\ UNCHANGED <<wq, ctx, wpc, wcur, workerAlive, pcall, submitted, lastRun, log>>

\* The thread owning handle p ends and drops its WorkSender.
ProducerDrop(p) ==
    /\ ppc[p] = "idle"
    /\ ppc' = [ppc EXCEPT ![p] = "gone"]
    /\ UNCHANGED notQueue
    /\ UNCHANGED <<wq, ctx, wpc, wcur, workerAlive, pcall, presult, reply,
                   submitted, lastRun, log>>

\* process_until, line 78: recv_deadline returns a queued item.
WorkerRecv ==
    /\ wpc = "recv"
    /\ wq # <<>>
    /\ wcur' = Recv(wq).item
    /\ wq' = Recv(wq).rest
    /\ wpc' = "running"
    /\ UNCHANGED notQueue
    /\ UNCHANGED <<ctx, workerAlive, ppc, pcall, presult, reply, submitted, lastRun, log>>

\* process_until, line 79: work(context).  For schedule_wait items the work
\* closure runs f and then sends its return value on the reply channel.
WorkerRun ==
    /\ wpc = "running"
    /\ ctx' = FnContext(wcur.fn, ctx)
    /\ log' = Append(log, [from |-> wcur.from, n |-> wcur.n])
    /\ lastRun' = [lastRun EXCEPT ![wcur.from] =
                      [n |-> wcur.n, fn |-> wcur.fn, ctxAt |-> ctx]]
    /\ reply' = IF wcur.kind = "wait"
                   THEN [reply EXCEPT ![wcur.from] =
                           [st |-> "full", val |-> ReplyValue(wcur.fn, ctx)]]
                   ELSE reply
    /\ wcur' = NoItem
    /\ wpc' = "recv"
    /\ UNCHANGED notQueue
    /\ UNCHANGED <<wq, workerAlive, ppc, pcall, presult, submitted>>

\* process_until, line 80: the deadline passes with the queue empty; the
\* consumer thread goes on with the rest of its cycle.
WorkerTimeout ==
    /\ wpc = "recv"
    /\ wq = <<>>
    /\ \E p \in Producers : ppc[p] # "gone"
    /\ wpc' = "away"
    /\ UNCHANGED notQueue
    /\ UNCHANGED <<wq, ctx, wcur, workerAlive, ppc, pcall, presult, reply,
                   submitted, lastRun, log>>

\* The consumer thread calls process_sleep again (lines 86-93).
WorkerResume ==
    /\ wpc = "away"
    /\ wpc' = "recv"
    /\ UNCHANGED notQueue
    /\ UNCHANGED <<wq, ctx, wcur, workerAlive, ppc, pcall, presult, reply,
                   submitted, lastRun, log>>

\* process_until, line 81: every WorkSender is gone and the queue is empty;
\* recv_deadline reports the disconnect and the consumer thread ends.
WorkerDisconnected ==
    /\ wpc = "recv"
    /\ wq = <<>>
    /\ \A p \in Producers : ppc[p] = "gone"
    /\ wpc' = "exited"
    /\ workerAlive' = FALSE
    /\ UNCHANGED notQueue
    /\ UNCHANGED <<wq, ctx, wcur, ppc, pcall, presult, reply, submitted, lastRun, log>>

\* The thread owning the Worker ends while handles exist (the Worker is
\* dropped).  Whether the channel frees the closures still queued at that
\* moment (dropping their reply senders) or keeps them until the last
\* WorkSender is gone is decided by the channel implementation: both outcomes
\* are modelled.
WorkerDrop ==
    /\ wpc \in {"recv", "away"}
    /\ \E p \in Producers : ppc[p] # "gone"
    /\ wpc' = "exited"
    /\ workerAlive' = FALSE
    /\ \/ UNCHANGED <<wq, reply>>
       \/ /\ wq' = <<>>
          /\ reply' = [p \in Producers |->
                         IF \E i \in 1..Len(wq) : wq[i].from = p /\ wq[i].kind = "wait"
                            THEN [st |-> "dropped", val |-> 0]
                            ELSE reply[p]]
    /\ UNCHANGED notQueue
    /\ UNCHANGED <<ctx, wcur, ppc, pcall, presult, submitted, lastRun, log>>

QueueNext ==
    \/ \E p \in Producers, fn \in Fns : ScheduleNowait(p, fn)
    \/ \E p \in Producers, fn \in Fns : ScheduleWait(p, fn)
    \/ \E p \in Producers : SendUnblock(p)
    \/ \E p \in Producers : ScheduleWaitReturn(p)
    \/ \E p \in Producers : ProducerDrop(p)
    \/ WorkerRecv
    \/ WorkerRun
    \/ WorkerTimeout
    \/ WorkerResume
    \/ WorkerDisconnected
    \/ WorkerDrop

----------------------------------------------------------------------------
(* Keying byte queue: write_keyer.rs.  KEYER_QUEUE is a bbqueue BBBuffer;   *)
(* the operators below follow its grant_max_remaining / commit /            *)
(* split_read / release.                                                    *)

\* Size of the ring buffer (write_keyer.rs line 17 sets 400; the model uses a
\* small ring so that wrap-around and overflow are reached).
KEYER_QUEUE_SIZE == 3

\* Longest input of one keyer_append call: one byte more than the ring holds.
MaxText == KEYER_QUEUE_SIZE + 1

NUL == 0
\* Bytes a C string can carry (here '+' and 'A'), and any c_char value.
TextBytes == {43, 65}
Bytes == TextBytes \cup {NUL}

\* Threads that append: the foreground thread and a second caller.
Appenders == {"fg", "aux"}
\* The threads that append whole texts; the other appends single characters.
TextAppenders == {"fg"}

Min(a, b) == IF a < b THEN a ELSE b

\* Inputs of keyer_append: for each length, the text "A+A+.." of that length.
Alt(len, b) == [i \in 1..len |-> IF i % 2 = 1 THEN b ELSE CHOOSE c \in TextBytes : c # b]
Texts == {Alt(len, 65) : len \in {1, KEYER_QUEUE_SIZE, MaxText}}

Modes == {"CWMODE", "DIGIMODE", "SSBMODE"}
CwKeyers == {"NO_KEYER", "NET_KEYER", "HAMLIB_KEYER", "MFJ1278_KEYER"}
DigiKeyers == {"NO_KEYER", "FLDIGI", "MFJ1278_KEYER", "GMFSK"}

BufSlice(b, start, len) == [i \in 1..len |-> b[start + i - 1]]

\* A mutation of grant_max_remaining: the inverted case hands out the whole
\* gap up to read (it forgets the byte that keeps write # read).
GrantMaxRemainingFillsGap(w, r, sz) ==
    IF w < r
       THEN IF r - w # 0
               THEN [ok |-> TRUE, start |-> w, sz |-> Min(r - w, sz)]
               ELSE [ok |-> FALSE, start |-> 0, sz |-> 0]
       ELSE IF w # KEYER_QUEUE_SIZE
               THEN [ok |-> TRUE, start |-> w, sz |-> Min(KEYER_QUEUE_SIZE - w, sz)]
               ELSE IF r > 1
                       THEN [ok |-> TRUE, start |-> 0, sz |-> Min(r - 1, sz)]
                       ELSE [ok |-> FALSE, start |-> 0, sz |-> 0]

\* producer.grant_max_remaining(sz) with write = w, read = r (line 55):
\* the contiguous free region it grants, or InsufficientSize (ok = FALSE).
GrantMaxRemaining(w, r, sz) ==
    IF w < r
       THEN IF r - w - 1 # 0
               THEN [ok |-> TRUE, start |-> w, sz |-> Min(r - w - 1, sz)]
               ELSE [ok |-> FALSE, start |-> 0, sz |-> 0]
       ELSE IF w # KEYER_QUEUE_SIZE
               THEN [ok |-> TRUE, start |-> w, sz |-> Min(KEYER_QUEUE_SIZE - w, sz)]
               ELSE IF r > 1
                       THEN [ok |-> TRUE, start |-> 0, sz |-> Min(r - 1, sz)]
                       ELSE [ok |-> FALSE, start |-> 0, sz |-> 0]

\* A mutation of line 64: nothing of the text is kept for the next round.
SplitAtNothingLeft(text, n) == <<>>

\* (_, text) = text.split_at(buf.len()) (line 64): the text still to copy.
SplitAtRest(text, n) == SubSeq(text, n + 1, Len(text))

\* grant.commit(len) (line 67): the new value of last, given the old write,
\* the new write (= reserve) and the old last.
CommitLast(w, nw, l) ==
    IF nw < w /\ w # KEYER_QUEUE_SIZE THEN w
    ELSE IF nw > l THEN KEYER_QUEUE_SIZE
    ELSE l

\* consumer.split_read() (line 102) with write = w, read = r, last = l: the
\* read position it settles on and the two ranges it grants.
SplitRead(w, r, l) ==
    LET r2 == IF r = l /\ w < r THEN 0 ELSE r
        sz1 == IF w < r2 THEN l - r2 ELSE w - r2
        sz2 == IF w < r2 THEN w ELSE 0
    IN  [ok |-> sz1 # 0, read |-> r2, sz1 |-> sz1, sz2 |-> sz2]

\* grant.release(used) (lines 110, 116): the new read position.
Release(r, g, used) ==
    IF used <= g.sz1 THEN r + used ELSE used - g.sz1

\* combine_segments (lines 81-91).
CombineSegments(left, right) ==
    IF Len(right) = 0 THEN left
    ELSE IF Len(left) = 0 THEN right
    ELSE left \o right

\* The bytes the ring holds, oldest first, as split_read would hand them out.
RingContent ==
    LET g == SplitRead(bbwrite, bbread, bblast)
    IN  BufSlice(buf, g.read, g.sz1) \o BufSlice(buf, 0, g.sz2)

\* keyer_dispatch (lines 121-193): the backend the text goes to.
KeyerDispatch(mode, cw, digi) ==
    IF digi = "FLDIGI" /\ mode = "DIGIMODE" THEN "fldigi"
    ELSE IF cw = "NET_KEYER" THEN "netkeyer"
    ELSE IF cw = "HAMLIB_KEYER" THEN "hamlib"
    ELSE IF cw = "MFJ1278_KEYER" \/ digi = "MFJ1278_KEYER" THEN "mfj1278"
    ELSE IF digi = "GMFSK" THEN "gmfsk"
    ELSE "none"

\* The backends keyer_dispatch writes to through a file it has to open.
FileBackends == {"mfj1278", "gmfsk"}

\* keyer_dispatch, lines 135-139: the rig keyer's message has the speed
\* directives '+' (43) and '-' (45) filtered out.
HamlibFilter(data) == SelectSeq(data, LAMBDA c : c # 43 /\ c # 45)

\* keyer_dispatch, lines 176-180: the modem file's message loses a final
\* newline (10) and gains a leading one.
GmfskFrame(data) ==
    <<10>> \o (IF Len(data) > 0 /\ data[Len(data)] = 10
                 THEN SubSeq(data, 1, Len(data) - 1) ELSE data)

\* keyer_dispatch (lines 121-193): the messages backend `to` receives for
\* the drained text; `opened` tells whether the backend's file could be opened.
BackendReceives(to, data, opened) ==
    IF to = "fldigi" \/ to = "netkeyer" THEN <<data>>
    ELSE IF to = "hamlib" THEN <<HamlibFilter(data)>>
    ELSE IF to = "mfj1278" THEN (IF opened THEN <<data>> ELSE <<>>)
    ELSE IF to = "gmfsk" THEN (IF opened THEN <<GmfskFrame(data)>> ELSE <<>>)
    ELSE <<>>

NoACall == [text |-> <<>>, startEmpty |-> FALSE, fresh |-> FALSE,
            clean |-> FALSE, taken |-> 0]
NoRGrant == [start |-> 0, sz1 |-> 0, sz2 |-> 0, queued |-> <<>>, during |-> 0]
NoEvent == [kind |-> "none"]

\* The state of the keying queue before any thread uses it (keyer_queue_init
\* has split KEYER_QUEUE), in mode `mode` with the keyer selectors cw / digi.
KeyerStart(mode, cw, digi) ==
    /\ buf = [i \in 0..(KEYER_QUEUE_SIZE - 1) |-> NUL]
    /\ bbwrite = 0
    /\ bbread = 0
    /\ bblast = 0
    /\ bbreserve = 0
    /\ write_in_progress = FALSE
    /\ read_in_progress = FALSE
    /\ KEYER_FLUSH_REQUEST = FALSE
    /\ trxmode = mode
    /\ kcfg = [cwkeyer |-> cw, digikeyer |-> digi]
    /\ plock = "none"
    /\ apc = [t \in Appenders |-> "idle"]
    /\ atext = [t \in Appenders |-> <<>>]
    /\ wgrant = [start |-> 0, sz |-> 0]
    /\ kpc = "idle"
    /\ do_flush = FALSE
    /\ rgrant = NoRGrant
    /\ panicked = "none"
    /\ shadow = <<>>
    /\ lastWriter = "none"
    /\ acall = [t \in Appenders |-> NoACall]
    /\ event = NoEvent

KeyerIdle == KeyerStart("CWMODE", "NO_KEYER", "NO_KEYER")

\* CW through the TNC with fldigi for Digital mode: every kind of route.
KeyerInit == KeyerStart("CWMODE", "MFJ1278_KEYER", "FLDIGI")

\* A mutation of keyer_append_safe: it does not take the KEYER_PRODUCER lock.
KeyerAppendBeginNoLock(t, text) ==
    /\ panicked = "none"
    /\ apc[t] = "idle"
    /\ apc' = [apc EXCEPT ![t] = "grant"]
    /\ atext' = [atext EXCEPT ![t] = text]
    /\ acall' = [acall EXCEPT ![t] = [text |-> text,
                                      startEmpty |-> (RingContent = <<>>),
                                      fresh |-> (bbwrite = 0 /\ bbread = 0),
                                      clean |-> TRUE, taken |-> 0]]
    /\ event' = NoEvent
    /\ UNCHANGED <<buf, bbwrite, bbread, bblast, bbreserve, write_in_progress,
                   read_in_progress, KEYER_FLUSH_REQUEST, trxmode, kcfg, plock,
                   wgrant, kpc, do_flush, rgrant, panicked, shadow, lastWriter>>
    /\ UNCHANGED notKeyer

\* keyer_append(text) / keyer_append_char(c) enter keyer_append_safe and take
\* the KEYER_PRODUCER lock (lines 43-52, 71-74).
KeyerAppendBegin(t, text) ==
    /\ panicked = "none"
    /\ apc[t] = "idle"
    /\ plock = "none"
    /\ plock' = t
    /\ apc' = [apc EXCEPT ![t] = "grant"]
    /\ atext' = [atext EXCEPT ![t] = text]
    /\ acall' = [acall EXCEPT ![t] = [text |-> text,
                                      startEmpty |-> (RingContent = <<>>),
                                      fresh |-> (bbwrite = 0 /\ bbread = 0),
                                      clean |-> TRUE, taken |-> 0]]
    /\ event' = NoEvent
    /\ UNCHANGED <<buf, bbwrite, bbread, bblast, bbreserve, write_in_progress,
                   read_in_progress, KEYER_FLUSH_REQUEST, trxmode, kcfg,
                   wgrant, kpc, do_flush, rgrant, panicked, shadow, lastWriter>>
    /\ UNCHANGED notKeyer

\* keyer_append(text): text is a C string (lines 43-47).
KeyerAppend(t) == \E text \in Texts : KeyerAppendBegin(t, text)

\* keyer_append_char(c): any byte value (lines 71-74).
KeyerAppendChar(t) ==
    \E c \in (IF t \in TextAppenders THEN Bytes ELSE {43}) :
        KeyerAppendBegin(t, <<c>>)

\* The return of keyer_append_safe for thread t, which drops `dropped` bytes.
AppendReturn(t, dropped) ==
    /\ apc' = [apc EXCEPT ![t] = "idle"]
    /\ plock' = IF plock = t THEN "none" ELSE plock
    /\ atext' = [atext EXCEPT ![t] = <<>>]
    /\ acall' = [acall EXCEPT ![t] = NoACall]
    /\ lastWriter' = IF lastWriter = t THEN "none" ELSE lastWriter
    /\ event' = [kind |-> "append", text |-> acall[t].text,
                 startEmpty |-> acall[t].startEmpty, fresh |-> acall[t].fresh,
                 clean |-> acall[t].clean, taken |-> acall[t].taken,
                 dropped |-> dropped, fill |-> Len(RingContent)]

\* keyer_append_safe, lines 54-59: the loop test and grant_max_remaining.
\* The call returns when the text is used up or when the ring grants nothing
\* (overflow: the rest of the text is dropped); a grant already in progress
\* is a panic.
KeyerAppendGrant(t) ==
    /\ panicked = "none"
    /\ apc[t] = "grant"
    /\ IF Len(atext[t]) = 0
          THEN /\ AppendReturn(t, 0)
               /\ UNCHANGED <<wgrant, bbreserve, write_in_progress, panicked>>
          ELSE IF write_in_progress
                  THEN /\ panicked' = "keyer_append"
                       /\ event' = [kind |-> "append_panic"]
                       /\ UNCHANGED <<apc, plock, acall, atext, wgrant, bbreserve,
                                      write_in_progress, lastWriter>>
                  ELSE LET g == GrantMaxRemaining(bbwrite, bbread, Len(atext[t]))
                       IN  IF g.ok
                              THEN /\ wgrant' = [start |-> g.start, sz |-> g.sz]
                                   /\ bbreserve' = g.start + g.sz
                                   /\ write_in_progress' = TRUE
                                   /\ apc' = [apc EXCEPT ![t] = "commit"]
                                   /\ event' = NoEvent
                                   /\ UNCHANGED <<plock, acall, atext, panicked,
                                                  lastWriter>>
                              ELSE /\ AppendReturn(t, Len(atext[t]))
                                   /\ UNCHANGED <<wgrant, bbreserve,
                                                  write_in_progress, panicked>>
    /\ UNCHANGED <<buf, bbwrite, bbread, bblast, read_in_progress,
                   KEYER_FLUSH_REQUEST, trxmode, kcfg, kpc, do_flush, rgrant,
                   shadow>>
    /\ UNCHANGED notKeyer

\* keyer_append_safe, lines 61-67: copy the head of the text into the granted
\* region, drop it from the text, commit the grant.
KeyerAppendCommit(t) ==
    /\ panicked = "none"
    /\ apc[t] = "commit"
    /\ buf' = [i \in 0..(KEYER_QUEUE_SIZE - 1) |->
                 IF wgrant.start <= i /\ i < wgrant.start + wgrant.sz
                    THEN atext[t][i - wgrant.start + 1]
                    ELSE buf[i]]
    /\ atext' = [atext EXCEPT ![t] = SplitAtRest(@, wgrant.sz)]
    /\ bblast' = CommitLast(bbwrite, bbreserve, bblast)
    /\ bbwrite' = bbreserve
    /\ write_in_progress' = FALSE
    /\ apc' = [apc EXCEPT ![t] = "grant"]
    /\ shadow' = shadow \o SubSeq(atext[t], 1, wgrant.sz)
    /\ lastWriter' = t
    /\ acall' = [acall EXCEPT ![t].taken = @ + wgrant.sz]
    /\ rgrant' = IF kpc = "granted"
                    THEN [rgrant EXCEPT !.during = @ + wgrant.sz]
                    ELSE rgrant
    /\ event' = NoEvent
    /\ UNCHANGED <<bbread, bbreserve, read_in_progress, KEYER_FLUSH_REQUEST,
                   trxmode, kcfg, plock, wgrant, kpc, do_flush, panicked>>
    /\ UNCHANGED notKeyer

\* A mutation of keyer_flush: it toggles the flag instead of setting it.
KeyerFlushToggle ==
    /\ panicked = "none"
    /\ KEYER_FLUSH_REQUEST' = ~KEYER_FLUSH_REQUEST
    /\ event' = NoEvent
    /\ UNCHANGED <<buf, bbwrite, bbread, bblast, bbreserve, write_in_progress,
                   read_in_progress, trxmode, kcfg, plock, apc, atext, wgrant,
                   kpc, do_flush, rgrant, panicked, shadow, lastWriter, acall>>
    /\ UNCHANGED notKeyer

\* keyer_flush (lines 76-79).
KeyerFlush ==
    /\ panicked = "none"
    /\ KEYER_FLUSH_REQUEST' = TRUE
    /\ event' = NoEvent
    /\ UNCHANGED <<buf, bbwrite, bbread, bblast, bbreserve, write_in_progress,
                   read_in_progress, trxmode, kcfg, plock, apc, atext, wgrant,
                   kpc, do_flush, rgrant, panicked, shadow, lastWriter, acall>>
    /\ UNCHANGED notKeyer

\* The operator switches the operating mode (tlf::trxmode is written by the
\* user interface and read by write_keyer, line 94).
SetTrxMode(m) ==
    /\ panicked = "none"
    /\ trxmode # m
    /\ trxmode' = m
    /\ event' = NoEvent
    /\ UNCHANGED <<buf, bbwrite, bbread, bblast, bbreserve, write_in_progress,
                   read_in_progress, KEYER_FLUSH_REQUEST, kcfg, plock, apc, atext,
                   wgrant, kpc, do_flush, rgrant, panicked, shadow, lastWriter,
                   acall>>
    /\ UNCHANGED notKeyer

\* A mutation of write_keyer: the mode test of lines 94-97 is missing.
WriteKeyerBeginAnyMode ==
    /\ panicked = "none"
    /\ kpc = "idle"
    /\ do_flush' = KEYER_FLUSH_REQUEST
    /\ KEYER_FLUSH_REQUEST' = FALSE
    /\ kpc' = "split"
    /\ event' = NoEvent
    /\ UNCHANGED <<buf, bbwrite, bbread, bblast, bbreserve, write_in_progress,
                   read_in_progress, trxmode, kcfg, plock, apc, atext, wgrant,
                   rgrant, panicked, shadow, lastWriter, acall>>
    /\ UNCHANGED notKeyer

\* A mutation of write_keyer: the flush request is left standing when there
\* is nothing queued to discard.
WriteKeyerBeginKeepsRequest ==
    /\ panicked = "none"
    /\ kpc = "idle"
    /\ IF trxmode # "CWMODE" /\ trxmode # "DIGIMODE"
          THEN /\ event' = [kind |-> "skip"]
               /\ UNCHANGED <<KEYER_FLUSH_REQUEST, kpc, do_flush>>
          ELSE /\ do_flush' = KEYER_FLUSH_REQUEST
               /\ KEYER_FLUSH_REQUEST' = (KEYER_FLUSH_REQUEST /\ RingContent = <<>>)
               /\ kpc' = "split"
               /\ event' = NoEvent
    /\ UNCHANGED <<buf, bbwrite, bbread, bblast, bbreserve, write_in_progress,
                   read_in_progress, trxmode, kcfg, plock, apc, atext, wgrant,
                   rgrant, panicked, shadow, lastWriter, acall>>
    /\ UNCHANGED notKeyer

\* write_keyer, lines 94-100: return at once unless the mode is CW or
\* Digital; otherwise take the flush flag.
WriteKeyerBegin ==
    /\ panicked = "none"
    /\ kpc = "idle"
    /\ IF trxmode # "CWMODE" /\ trxmode # "DIGIMODE"
          THEN /\ event' = [kind |-> "skip"]
               /\ UNCHANGED <<KEYER_FLUSH_REQUEST, kpc, do_flush>>
          ELSE /\ do_flush' = KEYER_FLUSH_REQUEST
               /\ KEYER_FLUSH_REQUEST' = FALSE
               /\ kpc' = "split"
               /\ event' = NoEvent
    /\ UNCHANGED <<buf, bbwrite, bbread, bblast, bbreserve, write_in_progress,
                   read_in_progress, trxmode, kcfg, plock, apc, atext, wgrant,
                   rgrant, panicked, shadow, lastWriter, acall>>
    /\ UNCHANGED notKeyer

\* What a write_keyer call reports when it returns.
DrainEvent(flush, queued, sent, released, expect, to, during, wrapped, received) ==
    [kind |-> "drain", flush |-> flush, queued |-> queued, sent |-> sent,
     released |-> released, expect |-> expect, to |-> to, during |-> during,
     wrapped |-> wrapped, received |-> received, mode |-> trxmode]

\* write_keyer, lines 102-106: split_read; an empty queue ends the call, a
\* read grant already in progress is a panic.
WriteKeyerSplitRead ==
    /\ panicked = "none"
    /\ kpc = "split"
    /\ IF read_in_progress
          THEN /\ panicked' = "write_keyer"
               /\ event' = [kind |-> "drain_panic", flush |-> do_flush,
                            queued |-> RingContent]
               /\ UNCHANGED <<bbread, read_in_progress, rgrant, kpc, do_flush,
                              acall>>
          ELSE LET g == SplitRead(bbwrite, bbread, bblast)
               IN  /\ bbread' = g.read
                   /\ panicked' = panicked
                   /\ acall' = [t \in Appenders |-> [acall[t] EXCEPT !.clean = FALSE]]
                   /\ IF g.ok
                         THEN /\ read_in_progress' = TRUE
                              /\ rgrant' = [start |-> g.read, sz1 |-> g.sz1,
                                            sz2 |-> g.sz2, queued |-> RingContent,
                                            during |-> 0]
                              /\ kpc' = "granted"
                              /\ event' = NoEvent
                              /\ do_flush' = do_flush
                         ELSE /\ kpc' = "idle"
                              /\ do_flush' = FALSE
                              /\ event' = DrainEvent(do_flush, <<>>, <<>>, 0, <<>>,
                                                     "none", 0, FALSE, <<>>)
                              /\ UNCHANGED <<read_in_progress, rgrant>>
    /\ UNCHANGED <<buf, bbwrite, bblast, bbreserve, write_in_progress,
                   KEYER_FLUSH_REQUEST, trxmode, kcfg, plock, apc, atext, wgrant,
                   shadow, lastWriter>>
    /\ UNCHANGED notKeyer

\* write_keyer, lines 108-118: on a flush release everything granted and
\* return; otherwise build the CString (a 0 byte is a panic), release, and
\* call keyer_dispatch (lines 121-193), which switches to SSB mode when the
\* TNC device cannot be opened.
WriteKeyerFinish ==
    /\ panicked = "none"
    /\ kpc = "granted"
    /\ LET len == rgrant.sz1 + rgrant.sz2
           data == CombineSegments(BufSlice(buf, rgrant.start, rgrant.sz1),
                                   BufSlice(buf, 0, rgrant.sz2))
           to == KeyerDispatch(trxmode, kcfg.cwkeyer, kcfg.digikeyer)
           expect == SubSeq(shadow, 1, len)
       IN  IF do_flush
              THEN /\ bbread' = Release(bbread, rgrant, len)
                   /\ shadow' = SubSeq(shadow, len + 1, Len(shadow))
                   /\ event' = DrainEvent(TRUE, rgrant.queued, <<>>, len, expect,
                                          "none", rgrant.during, rgrant.sz2 > 0, <<>>)
                   /\ acall' = [t \in Appenders |-> [acall[t] EXCEPT !.clean = FALSE]]
                   /\ kpc' = "idle"
                   /\ UNCHANGED <<trxmode, panicked>>
              ELSE IF \E i \in 1..Len(data) : data[i] = NUL
                      THEN /\ panicked' = "write_keyer"
                           /\ event' = [kind |-> "drain_panic", flush |-> FALSE,
                                        queued |-> rgrant.queued]
                           /\ UNCHANGED <<bbread, shadow, acall, kpc, trxmode>>
                      ELSE /\ bbread' = Release(bbread, rgrant, len)
                           /\ shadow' = SubSeq(shadow, len + 1, Len(shadow))
                           /\ acall' = [t \in Appenders |->
                                          [acall[t] EXCEPT !.clean = FALSE]]
                           /\ kpc' = "idle"
                           /\ panicked' = panicked
                           /\ \E opened \in (IF to \in FileBackends
                                                 THEN BOOLEAN ELSE {TRUE}) :
                                 /\ event' = DrainEvent(FALSE, rgrant.queued, <<data>>,
                                                        len, expect,
                                                        IF to = "mfj1278" /\ ~opened
                                                           THEN "ssb_fallback" ELSE to,
                                                        rgrant.during, rgrant.sz2 > 0,
                                                        BackendReceives(to, data, opened))
                                 /\ trxmode' = IF to = "mfj1278" /\ ~opened
                                                  THEN "SSBMODE" ELSE trxmode
    /\ read_in_progress' = FALSE
    /\ rgrant' = NoRGrant
    /\ do_flush' = FALSE
    /\ UNCHANGED <<buf, bbwrite, bblast, bbreserve, write_in_progress,
                   KEYER_FLUSH_REQUEST, kcfg, plock, apc, atext, wgrant,
                   lastWriter>>
    /\ UNCHANGED notKeyer

KeyerNext ==
    \/ \E t \in TextAppenders : KeyerAppend(t)
    \/ \E t \in Appenders : KeyerAppendChar(t)
    \/ \E t \in Appenders : KeyerAppendGrant(t)
    \/ \E t \in Appenders : KeyerAppendCommit(t)
    \/ KeyerFlush
    \/ \E m \in Modes : SetTrxMode(m)
    \/ WriteKeyerBegin
    \/ WriteKeyerSplitRead
    \/ WriteKeyerFinish

\* The keying queue under every pair of keyer selectors, with one thread
\* appending single characters and the operator switching modes.
DispatchInit ==
    \E cw \in CwKeyers, digi \in DigiKeyers : KeyerStart("CWMODE", cw, digi)

DispatchAppendChar == \E c \in TextBytes : KeyerAppendBegin("fg", <<c>>)

DispatchNext ==
    \/ DispatchAppendChar
    \/ KeyerAppendGrant("fg")
    \/ KeyerAppendCommit("fg")
    \/ \E m \in Modes : SetTrxMode(m)
    \/ WriteKeyerBegin
    \/ WriteKeyerSplitRead
    \/ WriteKeyerFinish

----------------------------------------------------------------------------
(* Netkeyer: netkeyer.rs.  Every method builds at most one datagram and     *)
(* passes it to socket.send_to; the model records the datagrams of the last *)
(* call and its result.                                                     *)

ESC == 27

\* Arguments tried for each method: the edges of its range, values on either
\* side of them, and the ends of the argument's type.
SpeedInputs == (0..12) \cup (55..64) \cup {255}
ToneInputs == {0, 1, 9, 299, 300, 301, 600, 999, 1000, 1001, 9999, 10000, 65535}
WeightInputs == {-128, -100, -51, -50, -49, -10, -9, -1, 0, 1, 9, 10, 49, 50, 51, 100, 127}
TuneInputs == (0..12) \cup {255}
TxDelayInputs == {0, 1, 9, 10, 49, 50, 51, 99, 100, 255}
BandSwitchInputs == (0..11) \cup {255}
\* "coapns" is 99 111 97 112 110 115.
SidetoneDeviceInputs == {0, 27, 48, 67, 96, 97, 98, 99, 100, 110, 111, 112, 113, 115, 116, 255}
VolumeInputs == {0, 1, 9, 10, 70, 99, 100, 101, 127, 128, 255}
NkTextBytes == {0, ESC, 65}
TextInputs == {<<>>} \cup {<<a>> : a \in NkTextBytes}
                 \cup {<<a, b>> : a \in NkTextBytes, b \in NkTextBytes}
ConfiguredVolumes == {-1, 0, 55, 100, 101, 300}

\* A mutation of the "{}" formatting: digits come out lowest first.
DecimalReversed(n) ==
    LET RECURSIVE rev(_)
        rev(k) == IF k < 10 THEN <<48 + k>> ELSE <<48 + (k % 10)>> \o rev(k \div 10)
    IN  IF n < 0 THEN <<45>> \o rev(0 - n) ELSE rev(n)

\* write!(buf, "{}", n): the ASCII decimal digits of n, '-' first when n < 0.
Decimal(n) ==
    LET RECURSIVE digits(_)
        digits(k) == IF k < 10 THEN <<48 + k>> ELSE digits(k \div 10) \o <<48 + (k % 10)>>
    IN  IF n < 0 THEN <<45>> \o digits(0 - n) ELSE digits(n)

NoNkCall == [cmd |-> "none", arg |-> 0]

NetInit ==
    /\ nkcall = NoNkCall
    /\ nkres = "none"
    /\ nksent = <<>>
    /\ sc_volume \in ConfiguredVolumes

NetIdle ==
    /\ nkcall = NoNkCall
    /\ nkres = "none"
    /\ nksent = <<>>
    /\ sc_volume = -1

\* socket.send_to(dgram, dest_addr)?: the datagram is handed to the socket,
\* which accepts it or reports an I/O error.
SendTo(cmd, arg, dgram) ==
    /\ nkcall' = [cmd |-> cmd, arg |-> arg]
    /\ nksent' = <<dgram>>
    /\ nkres' \in {"Ok", "IO"}
    /\ UNCHANGED sc_volume
    /\ UNCHANGED notNet

\* return Err(KeyerError::InvalidParameter) before anything is sent.
Reject(cmd, arg) ==
    /\ nkcall' = [cmd |-> cmd, arg |-> arg]
    /\ nksent' = <<>>
    /\ nkres' = "InvalidParameter"
    /\ UNCHANGED sc_volume
    /\ UNCHANGED notNet

\* write_esc!(buf, "<c>{}", value) and extract_buf (lines 42-55): ESC, the
\* command character, the value in decimal.
WriteEsc(cmdbyte, value) == <<ESC, cmdbyte>> \o Decimal(value)

\* simple_command (lines 147-152) through reset, abort and enable_word_mode
\* (lines 154-156, 182-193).
NkSimpleCommand ==
    \E c \in {48, 52, 54} : SendTo("simple_command", c, <<ESC, c>>)

\* set_speed (lines 158-168).
NkSetSpeed ==
    \E speed \in SpeedInputs :
        IF ~(5 <= speed /\ speed <= 60)
           THEN Reject("set_speed", speed)
           ELSE SendTo("set_speed", speed, WriteEsc(50, speed))

\* set_tone (lines 170-180).
NkSetTone ==
    \E tone \in ToneInputs :
        IF tone # 0 /\ ~(300 <= tone /\ tone <= 1000)
           THEN Reject("set_tone", tone)
           ELSE SendTo("set_tone", tone, WriteEsc(51, tone))

\* set_weight (lines 195-205).
NkSetWeight ==
    \E weight \in WeightInputs :
        IF ~(-50 <= weight /\ weight <= 50)
           THEN Reject("set_weight", weight)
           ELSE SendTo("set_weight", weight, WriteEsc(55, weight))

\* tune (lines 231-241).
NkTune ==
    \E seconds \in TuneInputs :
        IF seconds > 10
           THEN Reject("tune", seconds)
           ELSE SendTo("tune", seconds, WriteEsc(99, seconds))

\* set_tx_delay (lines 243-253).
NkSetTxDelay ==
    \E ms \in TxDelayInputs :
        IF ms > 50
           THEN Reject("set_tx_delay", ms)
           ELSE SendTo("set_tx_delay", ms, WriteEsc(100, ms))

\* set_band_switch (lines 255-265).
NkSetBandSwitch ==
    \E bandindex \in BandSwitchInputs :
        IF ~(1 <= bandindex /\ bandindex <= 9)
           THEN Reject("set_band_switch", bandindex)
           ELSE SendTo("set_band_switch", bandindex, WriteEsc(101, bandindex))

\* set_sidetone_device (lines 267-276): the device letter follows as it is.
NkSetSidetoneDevice ==
    \E dev \in SidetoneDeviceInputs :
        IF dev \notin {99, 111, 97, 112, 110, 115}
           THEN Reject("set_sidetone_device", dev)
           ELSE SendTo("set_sidetone_device", dev, <<ESC, 102, dev>>)

\* set_sidetone_volume (lines 278-288).
NkSetSidetoneVolume ==
    \E volume \in VolumeInputs :
        IF volume > 100
           THEN Reject("set_sidetone_volume", volume)
           ELSE SendTo("set_sidetone_volume", volume, WriteEsc(103, volume))

\* send_text (lines 290-297): the text is the datagram.
NkSendText ==
    \E text \in TextInputs :
        IF \E i \in 1..Len(text) : text[i] = ESC
           THEN Reject("send_text", text)
           ELSE SendTo("send_text", text, text)

\* write_tone (lines 125-145): set_tone, then for a tone other than 0 the
\* sidetone volume is set again, to tlf::sc_volume when that fits a u8 and
\* to 70 otherwise.  A tone that does not fit a u16 is rejected at once.
NkWriteTone ==
    \E tone \in ToneInputs \cup {-1, 65536} :
        /\ nkcall' = [cmd |-> "write_tone", arg |-> tone]
        /\ UNCHANGED sc_volume
        /\ UNCHANGED notNet
        /\ IF tone < 0 \/ tone > 65535 \/ (tone # 0 /\ ~(300 <= tone /\ tone <= 1000))
              THEN nksent' = <<>> /\ nkres' = "InvalidParameter"
              ELSE \/ nksent' = <<WriteEsc(51, tone)>> /\ nkres' = "IO"
                   \/ /\ tone = 0
                      /\ nksent' = <<WriteEsc(51, tone)>> /\ nkres' = "Ok"
                   \/ /\ tone # 0
                      /\ LET vol == IF 0 <= sc_volume /\ sc_volume <= 255
                                       THEN sc_volume ELSE 70
                         IN  IF vol > 100
                                THEN /\ nksent' = <<WriteEsc(51, tone)>>
                                     /\ nkres' = "InvalidParameter"
                                ELSE /\ nksent' = <<WriteEsc(51, tone), WriteEsc(103, vol)>>
                                     /\ nkres' \in {"Ok", "IO"}

NetNext ==
    \/ NkSimpleCommand
    \/ NkSetSpeed
    \/ NkSetTone
    \/ NkSetWeight
    \/ NkTune
    \/ NkSetTxDelay
    \/ NkSetBandSwitch
    \/ NkSetSidetoneDevice
    \/ NkSetSidetoneVolume
    \/ NkSendText
    \/ NkWriteTone

----------------------------------------------------------------------------
(* C2: schedule_wait(f) returns Ok(v) only after the Worker has run f, run  *)
(* it exactly once, and v is what f returned against the Worker's context   *)
(* at that moment (context 41, f = value + 1: Ok(42)).                      *)
TimesRun(p, n) == Cardinality({i \in 1..Len(log) : log[i] = [from |-> p, n |-> n]})

C2_WaitReturnsValueOfF ==
    \A p \in Producers :
        presult[p].tag = "Ok" =>
            /\ pcall[p].kind = "wait"
            /\ lastRun[p].n = submitted[p]
            /\ lastRun[p].fn = pcall[p].fn
            /\ TimesRun(p, submitted[p]) = 1
            /\ presult[p].val = FnReturn(pcall[p].fn, lastRun[p].ctxAt)

\* schedule_wait(|ctx| ctx.value + 1) with context value 41 returned 42.
C2_Witness ==
    \E p \in Producers :
        /\ presult[p] = Result("Ok", 42)
        /\ pcall[p].fn.op = "add1"
        /\ lastRun[p].ctxAt = 41

(* C3: schedule_nowait never blocks the calling thread, also when the queue *)
(* already holds its capacity of pending items.                             *)
C3_NowaitNeverBlocks ==
    \A p \in Producers : ~(ppc[p] = "sending" /\ pcall[p].kind = "nowait")

(* C4: the items submitted through one handle are executed in submission    *)
(* order, none twice and none skipped.                                      *)
RunOf(p) == SelectSeq(log, LAMBDA e : e.from = p)

C4_FifoPerHandle ==
    \A p \in Producers :
        \A i \in 1..Len(RunOf(p)) : RunOf(p)[i].n = i

\* Both handles had two items executed, interleaved with each other.
C4_Witness ==
    /\ \A p \in Producers : Len(RunOf(p)) >= 2
    /\ log[1].from # log[2].from

----------------------------------------------------------------------------
(* Keying queue: what a call reports in the state right after it returns.   *)

\* The last n elements of a sequence.
Tail_n(q, n) == SubSeq(q, Len(q) - n + 1, Len(q))

\* An over-long keyer_append that started on an empty queue and ran with no
\* write_keyer step in between has just returned.
OverlongAppendReturned ==
    /\ event.kind = "append"
    /\ event.startEmpty
    /\ event.clean
    /\ Len(event.text) > KEYER_QUEUE_SIZE

(* C6: after any interleaving of keyer_append, keyer_append_char,
   keyer_flush and write_keyer the keying queue holds between 0 and
   KEYER_QUEUE_SIZE bytes; keyer_append_safe never panics; an append returns
   having dropped bytes only when the ring granted no more space (the queue
   then holds at least KEYER_QUEUE_SIZE - 1 bytes), every byte of its input
   is either accepted or dropped, and what it accepted is the head of its
   input, found at the tail of the queue when no drain ran meanwhile. *)
C6_QueueBoundedOverflowDropped ==
    /\ Len(RingContent) \in 0..KEYER_QUEUE_SIZE
    /\ bbwrite \in 0..KEYER_QUEUE_SIZE
    /\ bbread \in 0..KEYER_QUEUE_SIZE
    /\ panicked # "keyer_append"
    /\ event.kind # "append_panic"
    /\ event.kind = "append" =>
          /\ event.taken + event.dropped = Len(event.text)
          /\ event.dropped > 0 =>
                /\ ~GrantMaxRemaining(bbwrite, bbread, event.dropped).ok
                /\ event.fill >= KEYER_QUEUE_SIZE - 1
          /\ event.clean =>
                /\ event.taken <= Len(RingContent)
                /\ Tail_n(RingContent, event.taken) = SubSeq(event.text, 1, event.taken)

\* An append has just returned after the ring took part of its input and
\* refused the rest.
C6_Witness ==
    /\ event.kind = "append"
    /\ event.taken > 0
    /\ event.dropped > 0
    /\ ~event.startEmpty

(* C7 as stated: one keyer_append call with an input longer than
   KEYER_QUEUE_SIZE, made on an empty queue, leaves exactly KEYER_QUEUE_SIZE
   bytes queued, the first KEYER_QUEUE_SIZE bytes of the input, whatever the
   read/write positions of the ring were. *)
C7_OverlongAppendKeepsCapacity ==
    OverlongAppendReturned =>
        RingContent = SubSeq(event.text, 1, KEYER_QUEUE_SIZE)

(* C7 amended: one keyer_append call with an input longer than
   KEYER_QUEUE_SIZE, made on an empty queue with no write_keyer step during
   the call, leaves the first KEYER_QUEUE_SIZE bytes of the input queued when
   nothing was ever appended before (write = read = 0), and the first
   KEYER_QUEUE_SIZE - 1 bytes of the input otherwise. *)
C7_OverlongAppendKeepsPrefix ==
    OverlongAppendReturned =>
        LET k == IF event.fresh THEN KEYER_QUEUE_SIZE ELSE KEYER_QUEUE_SIZE - 1
        IN  /\ event.taken = k
            /\ RingContent = SubSeq(event.text, 1, k)

\* An over-long append on a queue that was used and drained before has just
\* returned.
C7_Witness ==
    /\ OverlongAppendReturned
    /\ ~event.fresh
    /\ event.fill = KEYER_QUEUE_SIZE - 1
    /\ bbwrite < bbread

(* C8: keyer_flush is idempotent: a call leaves the flush request set and,
   when it was set already, changes nothing else; the next write_keyer in CW
   or Digital mode takes the request and clears it, and having taken it
   releases every byte queued at its split_read, dispatches nothing to any
   backend, and leaves in the queue only bytes appended meanwhile. *)
C8_FlushIdempotentDrainDiscards ==
    [][/\ KeyerFlush =>
             /\ KEYER_FLUSH_REQUEST'
             /\ KEYER_FLUSH_REQUEST =>
                   UNCHANGED <<buf, bbwrite, bbread, bblast, bbreserve,
                               write_in_progress, read_in_progress,
                               KEYER_FLUSH_REQUEST, trxmode, kcfg, plock, apc,
                               atext, wgrant, kpc, do_flush, rgrant, panicked>>
       /\ (kpc = "idle" /\ kpc' = "split") =>
             /\ do_flush' = KEYER_FLUSH_REQUEST
             /\ ~KEYER_FLUSH_REQUEST'
       /\ (kpc # "idle" /\ do_flush /\ kpc' = "idle") =>
             /\ event'.kind = "drain"
             /\ event'.flush
             /\ event'.sent = <<>>
             /\ event'.to = "none"
             /\ event'.released = Len(event'.queued)
             /\ Len(RingContent') = event'.during
             /\ trxmode' = trxmode
             /\ ~do_flush'
      ]_vars

\* A drain that had taken a flush request has just discarded a queue of two
\* or more bytes, and flush was requested again meanwhile.
C8_Witness ==
    /\ event.kind = "drain"
    /\ event.flush
    /\ Len(event.queued) >= 2
    /\ event.sent = <<>>
    /\ KEYER_FLUSH_REQUEST

(* C37: a flush request is consumed by the first drain that runs in CW or
   Digital mode after it, also when that drain finds the queue empty: the
   request is taken when the drain begins, does not outlive the drain and is
   not put back, so a drain discards bytes only on a request it took at its
   own beginning, and a drain that took none dispatches what it was granted. *)
C37_FlushConsumedByFirstDrain ==
    /\ [](kpc = "idle" => ~do_flush)
    /\ [][/\ (kpc = "idle" /\ kpc' = "split") =>
                /\ do_flush' = KEYER_FLUSH_REQUEST
                /\ ~KEYER_FLUSH_REQUEST'
          /\ (kpc = "split" /\ kpc' = "idle") =>
                /\ event'.kind = "drain"
                /\ event'.queued = <<>>
                /\ event'.flush = do_flush
                /\ event'.sent = <<>>
                /\ KEYER_FLUSH_REQUEST' = KEYER_FLUSH_REQUEST
          /\ (~do_flush /\ do_flush') =>
                /\ kpc = "idle"
                /\ KEYER_FLUSH_REQUEST
          /\ (kpc = "granted" /\ kpc' = "idle") =>
                /\ event'.kind = "drain"
                /\ event'.flush = do_flush
                /\ event'.sent = IF do_flush THEN <<>> ELSE <<event'.queued>>
                /\ KEYER_FLUSH_REQUEST' = KEYER_FLUSH_REQUEST
          ]_vars

\* A drain has just taken a flush request on an empty queue, and no request
\* is left standing.
C37_Witness ==
    /\ event.kind = "drain"
    /\ event.flush
    /\ event.queued = <<>>
    /\ ~KEYER_FLUSH_REQUEST
    /\ ~do_flush

(* C39: whatever keyer_append, keyer_append_char (any byte value, 0
   included) and keyer_flush calls came before, a write_keyer call completes
   without panicking the background thread. *)
C39_WriteKeyerNeverPanics ==
    /\ panicked # "write_keyer"
    /\ event.kind # "drain_panic"

(* C9: in CW or Digital mode with no flush pending, one write_keyer call
   passes to keyer_dispatch exactly one message, the bytes queued at its
   split_read in append order (also when they wrap around the end of the
   ring), and leaves in the queue only bytes appended meanwhile; on an empty
   queue it dispatches nothing. *)
C9_DrainDispatchesAllQueued ==
    (event.kind \in {"drain", "drain_panic"} /\ ~event.flush) =>
        /\ event.kind = "drain"
        /\ event.sent = IF event.queued = <<>> THEN <<>> ELSE <<event.queued>>
        /\ event.released = Len(event.queued)
        /\ Len(RingContent) = event.during

(* C10: for any interleaving of appends from several threads with drains,
   the queue always holds exactly the bytes accepted and not yet released,
   in the order the appends took the producer lock; every drain releases the
   oldest of them and the message it dispatches is exactly those bytes
   (nothing on a flush); while an append is under way no other thread's
   bytes enter the queue, and the bytes it has had accepted are the head of
   its input, found together at the tail of the queue. *)
C10_StreamOrderPreserved ==
    /\ RingContent = shadow
    /\ event.kind = "drain" =>
          /\ event.expect = event.queued
          /\ event.released = Len(event.expect)
          /\ event.sent = IF event.flush \/ event.expect = <<>>
                             THEN <<>> ELSE <<event.expect>>
    /\ \A t \in Appenders :
          /\ acall[t].taken > 0 => lastWriter = t
          /\ (acall[t].taken > 0 /\ acall[t].clean) =>
                Tail_n(shadow, acall[t].taken) = SubSeq(acall[t].text, 1, acall[t].taken)

\* A drain has just dispatched a message that wrapped around the end of the
\* ring while the second thread was inside keyer_append_safe.
C10_Witness ==
    /\ event.kind = "drain"
    /\ event.wrapped
    /\ Len(event.sent) = 1
    /\ Len(event.sent[1]) >= 2
    /\ plock = "aux"

(* C11: when the operating mode is neither CW nor Digital a write_keyer call
   changes nothing: it returns at once, the queue, its positions and a
   pending flush request are as before, and it starts no drain (so no
   backend receives anything); a drain starts only in CW or Digital mode. *)
C11_NoOpOutsideCwDigi ==
    [][/\ (kpc = "idle" /\ kpc' # "idle") => trxmode \in {"CWMODE", "DIGIMODE"}
       /\ (WriteKeyerBegin /\ trxmode \notin {"CWMODE", "DIGIMODE"}) =>
             /\ event'.kind = "skip"
             /\ RingContent' = RingContent
             /\ UNCHANGED <<buf, bbwrite, bbread, bblast, bbreserve,
                            write_in_progress, read_in_progress,
                            KEYER_FLUSH_REQUEST, trxmode, kcfg, plock, apc,
                            atext, wgrant, kpc, do_flush, rgrant, panicked,
                            shadow>>
      ]_vars

\* write_keyer has just returned at once with bytes queued and a flush pending.
C11_Witness ==
    /\ event.kind = "skip"
    /\ trxmode = "SSBMODE"
    /\ KEYER_FLUSH_REQUEST
    /\ Len(RingContent) >= 2

\* The backends that key CW / that carry a digital mode.
CwBackendOf(cw) ==
    IF cw = "NET_KEYER" THEN "netkeyer"
    ELSE IF cw = "HAMLIB_KEYER" THEN "hamlib"
    ELSE IF cw = "MFJ1278_KEYER" THEN "mfj1278"
    ELSE "none"
DigiBackendOf(digi) ==
    IF digi = "FLDIGI" THEN "fldigi"
    ELSE IF digi = "MFJ1278_KEYER" THEN "mfj1278"
    ELSE IF digi = "GMFSK" THEN "gmfsk"
    ELSE "none"

(* C12: for every operating mode (CW or Digital) and every pair of keyer
   selectors, a drained text is routed by mode: in CW mode to the configured
   CW keyer (rig, network or TNC) and never to fldigi or the modem file; in
   Digital mode to the configured digital backend (fldigi, TNC or modem
   file) and never to the network or rig CW keyer. *)
C12_RoutedByMode ==
    (event.kind = "drain" /\ event.sent # <<>>) =>
        LET to == KeyerDispatch(event.mode, kcfg.cwkeyer, kcfg.digikeyer)
        IN  /\ event.mode = "CWMODE" =>
                  /\ to \notin {"fldigi", "gmfsk"}
                  /\ kcfg.cwkeyer # "NO_KEYER" => to = CwBackendOf(kcfg.cwkeyer)
            /\ event.mode = "DIGIMODE" =>
                  /\ to \notin {"netkeyer", "hamlib"}
                  /\ kcfg.digikeyer # "NO_KEYER" => to = DigiBackendOf(kcfg.digikeyer)

----------------------------------------------------------------------------
(* Netkeyer: the protocol table the commands are held against.              *)

\* The stated range of each command.
StatedRange(cmd, v) ==
    CASE cmd = "set_speed" -> 5 <= v /\ v <= 60
      [] cmd = "set_tone" -> v = 0 \/ (300 <= v /\ v <= 1000)
      [] cmd = "set_weight" -> -50 <= v /\ v <= 50
      [] cmd = "tune" -> 0 <= v /\ v <= 10
      [] cmd = "set_tx_delay" -> 0 <= v /\ v <= 50
      [] cmd = "set_band_switch" -> 1 <= v /\ v <= 9
      [] cmd = "set_sidetone_device" -> v \in {99, 111, 97, 112, 110, 115}
      [] cmd = "set_sidetone_volume" -> 0 <= v /\ v <= 100
      [] cmd = "send_text" -> \A i \in 1..Len(v) : v[i] # 27

\* The command character of each command: 2 3 7 c d e f g.
StatedByte(cmd) ==
    CASE cmd = "set_speed" -> 50
      [] cmd = "set_tone" -> 51
      [] cmd = "set_weight" -> 55
      [] cmd = "tune" -> 99
      [] cmd = "set_tx_delay" -> 100
      [] cmd = "set_band_switch" -> 101
      [] cmd = "set_sidetone_device" -> 102
      [] cmd = "set_sidetone_volume" -> 103
      [] cmd = "send_text" -> 0

NumericCommands == {"set_speed", "set_tone", "set_weight", "tune", "set_tx_delay",
                    "set_band_switch", "set_sidetone_volume"}
RangedCommands == NumericCommands \cup {"set_sidetone_device", "send_text"}

\* The number a string of ASCII digits with an optional leading '-' reads as.
RECURSIVE DigitsValue(_)
DigitsValue(d) ==
    IF Len(d) = 0 THEN 0
    ELSE 10 * DigitsValue(SubSeq(d, 1, Len(d) - 1)) + (d[Len(d)] - 48)

\* p is the ASCII-decimal writing of v: digits only after an optional '-',
\* no leading zero, and it reads as v.
IsDecimalOf(p, v) ==
    LET d == IF Len(p) > 0 /\ p[1] = 45 THEN SubSeq(p, 2, Len(p)) ELSE p
    IN  /\ Len(d) >= 1
        /\ \A i \in 1..Len(d) : 48 <= d[i] /\ d[i] <= 57
        /\ Len(d) > 1 => d[1] # 48
        /\ (Len(p) > 0 /\ p[1] = 45) => v < 0
        /\ DigitsValue(d) = (IF v < 0 THEN 0 - v ELSE v)

\* The last call sent one datagram: ESC, the command character, the
\* argument in ASCII decimal.
SentEscByteDecimal ==
    /\ Len(nksent) = 1
    /\ Len(nksent[1]) >= 3
    /\ nksent[1][1] = 27
    /\ nksent[1][2] = StatedByte(nkcall.cmd)
    /\ IsDecimalOf(SubSeq(nksent[1], 3, Len(nksent[1])), nkcall.arg)

(* C13 as stated: for every Netkeyer command with a stated range, an
   out-of-range value returns InvalidParameter and sends no datagram, and an
   in-range value sends exactly one datagram consisting of ESC, the command
   byte and the ASCII-decimal parameter. *)
C13_RangeCheckedEscDecimal ==
    nkcall.cmd \in RangedCommands =>
        IF StatedRange(nkcall.cmd, nkcall.arg)
           THEN nkres # "InvalidParameter" /\ SentEscByteDecimal
           ELSE nkres = "InvalidParameter" /\ nksent = <<>>

(* C13 amended: an out-of-range value returns InvalidParameter and sends no
   datagram; an in-range value sends exactly one datagram, which is ESC, the
   command byte and the ASCII-decimal parameter for speed, tone, weight,
   tune, TX delay, band switch and sidetone volume, is ESC, 'f' and the
   device letter itself for the sidetone device, and is the text alone,
   with no ESC and no command byte, for plain text. *)
C13_RangeCheckedOneDatagram ==
    nkcall.cmd \in RangedCommands =>
        IF StatedRange(nkcall.cmd, nkcall.arg)
           THEN /\ nkres # "InvalidParameter"
                /\ CASE nkcall.cmd \in NumericCommands -> SentEscByteDecimal
                     [] nkcall.cmd = "set_sidetone_device" ->
                            nksent = << <<27, 102, nkcall.arg>> >>
                     [] nkcall.cmd = "send_text" -> nksent = <<nkcall.arg>>
           ELSE nkres = "InvalidParameter" /\ nksent = <<>>

\* set_speed(60) has just sent ESC '2' "60".
C13_Witness ==
    /\ nkcall = [cmd |-> "set_speed", arg |-> 60]
    /\ nkres = "Ok"
    /\ nksent = << <<27, 50, 54, 48>> >>

----------------------------------------------------------------------------
(* Band lookup: bands.rs lines 3-14 over weakstubs.rs lines 12-24.         *)

\* Rust's Option: None is the empty sequence, Some(x) the one-element one.
None == <<>>
Some(x) == <<x>>

\* The band-corner table, row i of the source at position i + 1.
bandcorner ==
    << <<1800000, 2000000>>,
       <<3500000, 4000000>>,
       <<5250000, 5450000>>,
       <<7000000, 7300000>>,
       <<10100000, 10150000>>,
       <<14000000, 14350000>>,
       <<18068000, 18168000>>,
       <<21000000, 21450000>>,
       <<24890000, 24990000>>,
       <<28000000, 29700000>>,
       <<0, 0>> >>

NBANDS == Len(bandcorner)
BANDINDEX_20 == 5

\* A mutation of the range test: the top edge is excluded.
RangeContainsHalfOpen(bottom, top, freq) == bottom <= freq /\ freq < top

\* (bottom..=top).contains(&freq)
RangeContains(bottom, top, freq) == bottom <= freq /\ freq <= top

RECURSIVE ScanCorners(_, _)
ScanCorners(freq, i) ==
    IF i >= NBANDS THEN None
    ELSE IF RangeContains(bandcorner[i + 1][1], bandcorner[i + 1][2], freq)
         THEN Some(i)
         ELSE ScanCorners(freq, i + 1)

freq2bandindex(freq) == ScanCorners(freq, 0)

\* Frequencies on, just inside and just outside every band edge (c_uint).
BandFreqs ==
    UNION {{bandcorner[r][c] + d : d \in {-1, 0, 1}} :
               r \in 1..NBANDS, c \in 1..2} \cap Nat

BandInit ==
    /\ bfreq \in BandFreqs
    /\ bresult = <<>>

BandIdle ==
    /\ bfreq = 0
    /\ bresult = <<>>

Freq2BandIndex ==
    /\ bresult = <<>>
    /\ bresult' = <<freq2bandindex(bfreq)>>
    /\ UNCHANGED bfreq
    /\ UNCHANGED notBand

BandNext == Freq2BandIndex

----------------------------------------------------------------------------
(* Rig controller: hamlib.rs.  The Rig is owned by the background thread,  *)
(* so each method runs to completion before the next one starts; what the  *)
(* radio answers to each call is an input of the action.                   *)

POLL_PERIOD == 200
MaxTime == 400

\* rmode_t is a bit mask; a mode is the set of its bits.
RIG_MODE_NONE == {}
RIG_MODE_LSB == {"LSB"}
RIG_MODE_USB == {"USB"}
RIG_MODE_CW == {"CW"}
RIG_MODE_RTTY == {"RTTY"}
RIG_MODE_RTTYR == {"RTTYR"}

\* What the radio can answer.
VfoResults == {"Ok", "ENIMPL", "Err"}
RigFreqs == {7000000, 13999999, 14000000}
FreqResults == {None} \cup {Some(f) : f \in RigFreqs}
ReportedModes == {RIG_MODE_USB, RIG_MODE_CW}
ModeResults == {None} \cup {Some(m) : m \in ReportedModes}
Carriers == {0, 1500}
Bandwidths == {None, Some(500)}
TickSteps == {POLL_PERIOD - 1, POLL_PERIOD}

NoRigEvent == [kind |-> "none"]

\* radio_to_display_frequency, lines 642-644
radio_to_display_frequency(freq, st) ==
    freq + (IF st.fldigi_carrier = None THEN 0 ELSE st.fldigi_carrier[1])

\* RigState::poll, lines 546-583: vfo, fr and md are the results of get_vfo,
\* get_freq and get_mode, carrier is what fldigi_get_carrier returns.
RigStatePoll(time, mode, digikeyer, vfo, fr, md, carrier) ==
    LET out0 == [time |-> time, vfo |-> None, freq |-> None, mode |-> None,
                 fldigi_carrier |-> None, bandidx |-> None]
        out1 == [out0 EXCEPT !.vfo = IF vfo = "Ok" THEN Some("VFO") ELSE None]
        out2 == [out1 EXCEPT !.freq = fr, !.mode = md]
        out3 == [out2 EXCEPT !.fldigi_carrier =
                     IF mode = "DIGIMODE" /\ digikeyer \in {"GMFSK", "FLDIGI"}
                     THEN Some(carrier) ELSE None]
    IN  IF vfo = "Err" THEN out0
        ELSE IF fr = None THEN out1
        ELSE [out3 EXCEPT !.bandidx =
                  freq2bandindex(radio_to_display_frequency(fr[1], out3))]

\* A mutation of get_ssb_mode: the band edge itself counts as below.
get_ssb_mode_edge_below(freq) ==
    IF freq <= bandcorner[BANDINDEX_20 + 1][1] THEN RIG_MODE_LSB
    ELSE RIG_MODE_USB

\* get_ssb_mode, lines 585-593
get_ssb_mode(freq) ==
    IF freq < bandcorner[BANDINDEX_20 + 1][1] THEN RIG_MODE_LSB
    ELSE RIG_MODE_USB

\* Rig::set_band_mode, lines 483-512: the set_mode call it makes, if any.
set_band_mode(mode, rigmode, freq, bw) ==
    IF mode = "SSBMODE"
    THEN Some([mode |-> get_ssb_mode(freq), width |-> None])
    ELSE IF mode = "DIGIMODE"
    THEN LET rm == IF rigmode = None THEN RIG_MODE_NONE ELSE rigmode[1]
             mask == RIG_MODE_LSB \cup RIG_MODE_USB \cup RIG_MODE_RTTY
                         \cup RIG_MODE_RTTYR
         IN  IF (rm \cap mask) # rm
             THEN Some([mode |-> RIG_MODE_LSB, width |-> None])
             ELSE None
    ELSE Some([mode |-> RIG_MODE_CW, width |-> bw])

\* A mutation of the band comparison of Rig::poll: every poll is a change.
BandChangedAlways(st, previous) == TRUE

\* line 445: state.bandidx != previous.and_then(|s| s.bandidx)
BandChanged(st, previous) ==
    st.bandidx # (IF previous = None THEN None ELSE previous[1].bandidx)

\* lines 435-439
RateLimited(previous, t) ==
    previous # None /\ t - previous[1].time < POLL_PERIOD

\* The Rig open_rig returns with Ok, lines 231-241 and 269.
RigLive(ptt, keyer, bw) ==
    /\ rigpc = "live"
    /\ rig_opened = TRUE
    /\ use_ptt = ptt
    /\ ptt_state = FALSE
    /\ use_keyer = keyer
    /\ cw_bandwidth = bw
    /\ state = None
    /\ rig_released = <<>>

RigHistoryInit ==
    /\ now = 0
    /\ lastAccess = None
    /\ ptt_written = FALSE
    /\ revent = NoRigEvent

\* Before open_rig.
RigUnopened ==
    /\ rigpc = "unopened"
    /\ rigcfg = [want_ptt |-> FALSE, has_ptt |-> FALSE]
    /\ rig_opened = FALSE
    /\ use_ptt = FALSE
    /\ ptt_state = FALSE
    /\ use_keyer = FALSE
    /\ cw_bandwidth = None
    /\ state = None
    /\ rig_released = <<>>

RigIdle == RigUnopened /\ RigHistoryInit

\* Time passes between two calls.
Tick ==
    /\ \E d \in TickSteps :
          /\ now + d <= MaxTime
          /\ now' = now + d
    /\ revent' = NoRigEvent
    /\ UNCHANGED <<rigpc, rigcfg, rig_opened, use_ptt, ptt_state, use_keyer,
                   cw_bandwidth, state, rig_released, lastAccess, ptt_written>>
    /\ UNCHANGED keyerVars
    /\ UNCHANGED notRig

\* The foreground changes tlf::trxmode, which poll reads at lines 441-442.
RigSetTrxMode ==
    /\ \E m \in Modes :
          /\ trxmode # m
          /\ trxmode' = m
    /\ revent' = NoRigEvent
    /\ UNCHANGED <<now, rigpc, rigcfg, rig_opened, use_ptt, ptt_state, use_keyer,
                   cw_bandwidth, state, rig_released, lastAccess, ptt_written>>
    /\ UNCHANGED <<buf, bbwrite, bbread, bblast, bbreserve, write_in_progress,
                   read_in_progress, KEYER_FLUSH_REQUEST, kcfg, plock, apc,
                   atext, wgrant, kpc, do_flush, rgrant, panicked, shadow,
                   lastWriter, acall, event>>
    /\ UNCHANGED notRig

\* What a poll did: whether it read the hardware, what it returned, the
\* band index of the snapshot it found and of the one it read, and the
\* notifications and mode calls it issued.
PollEvent(read, result, previous, band, bandswitch, band_mode, setmode) ==
    [kind |-> "poll", read |-> read, result |-> result,
     since |-> IF lastAccess = None THEN None ELSE Some(now - lastAccess[1]),
     previous |-> IF previous = None THEN None ELSE Some(previous[1].bandidx),
     band |-> band, bandswitch |-> bandswitch, band_mode |-> band_mode,
     set_mode |-> setmode]

\* Rig::poll past the rate limit, lines 441-456, with change_freq (459-481),
\* set_band_mode and poll_keyer (514-535).  vfo, fr, md and carrier are what
\* the radio and fldigi answer; shifted: get_shifted_freq returned Some;
\* freq_ok, mode_ok and speed_ok: rig_set_freq, rig_set_mode and the keyer
\* speed read succeeded.
PollRead(vfo, fr, md, carrier, shifted, freq_ok, mode_ok, speed_ok) ==
    LET previous == state
        st == RigStatePoll(now, trxmode, kcfg.digikeyer, vfo, fr, md, carrier)
        freq == radio_to_display_frequency(st.freq[1], st)
        changed == BandChanged(st, previous)
        call == [trxmode |-> trxmode, rigmode |-> st.mode, freq |-> freq]
        write == set_band_mode(trxmode, st.mode, freq, cw_bandwidth)
    IN  /\ lastAccess' = Some(now)
        /\ IF st.freq = None
           THEN \* change_freq returns Err(Error::Poll)
                /\ state' = None
                /\ revent' = PollEvent(TRUE, "Poll", previous, st.bandidx,
                                       <<>>, <<>>, <<>>)
           ELSE IF st.fldigi_carrier # None /\ shifted /\ ~freq_ok
           THEN /\ state' = None
                /\ revent' = PollEvent(TRUE, "Rig", previous, st.bandidx,
                                       <<>>, <<>>, <<>>)
           ELSE IF changed /\ write # None /\ ~mode_ok
           THEN /\ state' = None
                /\ revent' = PollEvent(TRUE, "Rig", previous, st.bandidx,
                                       <<freq>>, <<call>>, write)
           ELSE /\ state' = Some(st)
                /\ revent' = PollEvent(
                       TRUE, IF use_keyer /\ ~speed_ok THEN "Rig" ELSE "Ok",
                       previous, st.bandidx,
                       IF changed THEN <<freq>> ELSE <<>>,
                       IF changed THEN <<call>> ELSE <<>>,
                       IF changed THEN write ELSE <<>>)

\* Rig::poll, lines 433-457.  An answer the code does not ask for on the
\* path taken is not enumerated.
Poll ==
    /\ rigpc = "live"
    /\ UNCHANGED <<now, rigpc, rigcfg, rig_opened, use_ptt, ptt_state,
                   use_keyer, cw_bandwidth, rig_released, ptt_written>>
    /\ UNCHANGED keyerVars
    /\ UNCHANGED notRig
    /\ IF RateLimited(state, now)
       THEN /\ revent' = PollEvent(FALSE, "Ok", state, None, <<>>, <<>>, <<>>)
            /\ UNCHANGED <<state, lastAccess>>
       ELSE LET digi == /\ trxmode = "DIGIMODE"
                        /\ kcfg.digikeyer \in {"GMFSK", "FLDIGI"}
            IN  \E vfo \in VfoResults :
                \E fr \in (IF vfo = "Err" THEN {None} ELSE FreqResults) :
                \E md \in (IF fr = None THEN {None} ELSE ModeResults) :
                \E carrier \in (IF digi /\ fr # None THEN Carriers ELSE {0}) :
                \E shifted \in (IF digi /\ fr # None THEN BOOLEAN ELSE {FALSE}) :
                \E freq_ok \in (IF shifted THEN BOOLEAN ELSE {TRUE}) :
                \E mode_ok \in (IF freq_ok /\ fr # None THEN BOOLEAN ELSE {TRUE}) :
                \E speed_ok \in (IF use_keyer /\ mode_ok /\ freq_ok /\ fr # None
                                 THEN BOOLEAN ELSE {TRUE}) :
                    PollRead(vfo, fr, md, carrier, shifted, freq_ok, mode_ok,
                             speed_ok)

\* A mutation of Rig::set_ptt: the comparison with ptt_state is missing.
PttSkippedNoDebounce(use, current, ptt) == ~use

\* line 398: !self.use_ptt || self.ptt_state == ptt
PttSkipped(use, current, ptt) == ~use \/ current = ptt

\* Rig::set_ptt, lines 397-413; ok: rig_set_ptt returned RIG_OK.
SetPtt ==
    /\ rigpc = "live"
    /\ \E ptt, ok \in BOOLEAN :
          IF PttSkipped(use_ptt, ptt_state, ptt)
          THEN /\ revent' = [kind |-> "set_ptt", ptt |-> ptt,
                             before |-> ptt_state, hw |-> <<>>,
                             result |-> "Ok"]
               /\ UNCHANGED <<ptt_state, ptt_written>>
          ELSE /\ revent' = [kind |-> "set_ptt", ptt |-> ptt,
                             before |-> ptt_state, hw |-> <<ptt>>,
                             result |-> IF ok THEN "Ok" ELSE "Rig"]
               /\ ptt_state' = IF ok THEN ptt ELSE ptt_state
               /\ ptt_written' = IF ok THEN ptt ELSE ptt_written
    /\ UNCHANGED <<now, rigpc, rigcfg, rig_opened, use_ptt, use_keyer,
                   cw_bandwidth, state, rig_released, lastAccess>>
    /\ UNCHANGED keyerVars
    /\ UNCHANGED notRig

\* A mutation of drop: rig_close is called whatever rig_opened says.
DropCallsAlwaysClose(isopen) == <<"rig_close", "rig_cleanup">>

\* impl Drop for Rig, lines 124-136: the library calls it makes.
DropCalls(isopen) ==
    IF isopen THEN <<"rig_close", "rig_cleanup">> ELSE <<"rig_cleanup">>

\* Where open_rig can return, lines 197-292.  InvalidModel returns before
\* a Rig exists; the others drop the Rig they return from.
OpenPaths ==
    {"InvalidModel", "InvalidRigconf", "SetConf", "Open", "WarmUp",
     "KeyerSpeed", "Ok"}

\* rig_open has returned RIG_OK on this path (line 264 is reached).
RigOpenSucceeded(path) == path \in {"WarmUp", "KeyerSpeed", "Ok"}

\* RigConfig::open_rig, lines 197-292.
OpenRig ==
    /\ rigpc = "unopened"
    /\ \E path \in OpenPaths, want, has, keyer \in BOOLEAN, bw \in Bandwidths :
          /\ path = "KeyerSpeed" => keyer
          /\ rigcfg' = [want_ptt |-> want, has_ptt |-> has]
          /\ revent' = [kind |-> "open_rig", path |-> path]
          /\ IF path = "InvalidModel"
             THEN /\ rigpc' = "failed"
                  /\ UNCHANGED <<rig_opened, use_ptt, ptt_state, use_keyer,
                                 cw_bandwidth, state, rig_released>>
             ELSE /\ use_ptt' = (has /\ want)
                  /\ ptt_state' = FALSE
                  /\ use_keyer' = keyer
                  /\ cw_bandwidth' = bw
                  /\ state' = None
                  /\ IF path = "Ok"
                     THEN /\ rigpc' = "live"
                          /\ rig_opened' = TRUE
                          /\ rig_released' = <<>>
                     ELSE /\ rigpc' = "dropped"
                          /\ rig_opened' = FALSE
                          /\ rig_released' = DropCalls(RigOpenSucceeded(path))
    /\ UNCHANGED <<now, lastAccess, ptt_written>>
    /\ UNCHANGED keyerVars
    /\ UNCHANGED notRig

\* The background thread ends and its context, the Rig, is dropped.
DropRig ==
    /\ rigpc = "live"
    /\ rigpc' = "dropped"
    /\ rig_released' = rig_released \o DropCalls(rig_opened)
    /\ rig_opened' = FALSE
    /\ revent' = [kind |-> "drop", path |-> "Ok"]
    /\ UNCHANGED <<now, rigcfg, use_ptt, ptt_state, use_keyer, cw_bandwidth,
                   state, lastAccess, ptt_written>>
    /\ UNCHANGED keyerVars
    /\ UNCHANGED notRig

\* The poll cycle of a rig that open_rig returned.
RigPollInit ==
    /\ \E keyer \in BOOLEAN : RigLive(FALSE, keyer, Some(500))
    /\ rigcfg = [want_ptt |-> FALSE, has_ptt |-> FALSE]
    /\ RigHistoryInit

RigPollNext ==
    \/ Tick
    \/ RigSetTrxMode
    \/ Poll

\* The life of a Rig: open_rig, PTT requests, drop.
RigLifeNext ==
    \/ OpenRig
    \/ SetPtt
    \/ DropRig

----------------------------------------------------------------------------
(* Claims about the rig controller and the band lookup.                    *)

\* C14: a poll called less than POLL_PERIOD after the stored snapshot's
\* timestamp reads no hardware and leaves the stored RigState unchanged; a
\* poll called once at least POLL_PERIOD has elapsed reads the hardware and
\* replaces the snapshot with one stamped with the new time.
C14_PollKeepsOrReplacesSnapshot ==
    [][revent'.kind = "poll" =>
          /\ (state # None /\ now - state[1].time < POLL_PERIOD) =>
                /\ ~revent'.read
                /\ state' = state
          /\ (state # None /\ now - state[1].time >= POLL_PERIOD) =>
                /\ revent'.read
                /\ state' # None
                /\ state'[1].time = now
      ]_vars

\* C15: any two polls that access the radio hardware are at least
\* POLL_PERIOD apart, whether the earlier one succeeded or returned an error.
C15_HardwarePollsSpaced ==
    (revent.kind = "poll" /\ revent.read /\ revent.since # None) =>
        revent.since[1] >= POLL_PERIOD

\* C36: a poll that returns an error because the frequency could not be read
\* or the mode-setting call failed leaves the stored RigState snapshot as it
\* was (the snapshot of the last successful poll), so that the next
\* successful poll compares its band index with that snapshot's.  A poll
\* whose only failure is the keyer-speed read has already stored its new
\* snapshot and is not constrained here.
C36_FailedPollKeepsSnapshot ==
    [][(revent'.kind = "poll" /\ revent'.read /\ revent'.result # "Ok") =>
          \/ state' = state
          \/ use_keyer /\ state' # None /\ state'[1].time = now
      ]_vars

\* C16: when two successive successful polls read frequencies inside bands N
\* and M, the band-switch notification and the mode-setting call
\* (set_band_mode, hence at most one rig_set_mode) are each issued exactly
\* once if N differs from M and not at all if the band stays the same; a
\* rate-limited poll issues neither.
C16_BandChangeHandledOnce ==
    revent.kind = "poll" =>
        /\ ~revent.read =>
              /\ revent.bandswitch = <<>>
              /\ revent.band_mode = <<>>
              /\ revent.set_mode = <<>>
        /\ (/\ revent.read
            /\ revent.result = "Ok"
            /\ revent.previous # None
            /\ revent.previous[1] # None
            /\ revent.band # None) =>
              IF revent.band # revent.previous[1]
              THEN /\ Len(revent.bandswitch) = 1
                   /\ Len(revent.band_mode) = 1
                   /\ Len(revent.set_mode) <= 1
              ELSE /\ revent.bandswitch = <<>>
                   /\ revent.band_mode = <<>>
                   /\ revent.set_mode = <<>>

C16_Witness ==
    /\ revent.kind = "poll"
    /\ revent.read
    /\ revent.result = "Ok"
    /\ revent.previous = Some(Some(3))
    /\ revent.band = Some(BANDINDEX_20)
    /\ Len(revent.bandswitch) = 1
    /\ Len(revent.band_mode) = 1

\* C17: on a band change, SSB writes LSB below the lower edge of the 20 m
\* band and USB at or above it; Digital writes a mode only if the rig's
\* reported mode is none of USB, LSB, RTTY, RTTY-reverse; any other operating
\* mode writes CW with the configured CW bandwidth.
C17_BandModeChoice ==
    (revent.kind = "poll" /\ revent.band_mode # <<>>) =>
        LET c == revent.band_mode[1]
            w == revent.set_mode
            edge == bandcorner[BANDINDEX_20 + 1][1]
        IN  /\ c.trxmode = "SSBMODE" =>
                  w = Some([mode |-> IF c.freq < edge THEN {"LSB"} ELSE {"USB"},
                            width |-> None])
            /\ c.trxmode = "DIGIMODE" =>
                  (w # None =>
                      c.rigmode \notin {Some({"USB"}), Some({"LSB"}),
                                        Some({"RTTY"}), Some({"RTTYR"})})
            /\ c.trxmode \notin {"SSBMODE", "DIGIMODE"} =>
                  w = Some([mode |-> {"CW"}, width |-> cw_bandwidth])

C17_Witness ==
    /\ revent.kind = "poll"
    /\ revent.band_mode # <<>>
    /\ revent.band_mode[1].trxmode = "SSBMODE"
    /\ revent.band_mode[1].freq = bandcorner[BANDINDEX_20 + 1][1]
    /\ revent.set_mode = Some([mode |-> {"USB"}, width |-> None])

\* C18: freq2bandindex(f) returns index i for every f with
\* bottom_i <= f <= top_i, the first such row winning, and None for every f
\* in no row's range.
C18_BandIndexInclusive ==
    bresult # <<>> =>
        LET In(i) == /\ bandcorner[i + 1][1] <= bfreq
                     /\ bfreq <= bandcorner[i + 1][2]
            rows == 0..(NBANDS - 1)
        IN  /\ \A i \in rows :
                  (In(i) /\ \A j \in rows : j < i => ~In(j)) =>
                      bresult[1] = Some(i)
            /\ (\A i \in rows : ~In(i)) => bresult[1] = None

C18_Witness ==
    /\ bfreq = bandcorner[BANDINDEX_20 + 1][2]
    /\ bresult = <<Some(BANDINDEX_20)>>

\* C19: a hardware PTT call is issued only when PTT is in use (requested and
\* supported) and the requested value differs from the recorded state; the
\* recorded state equals the last value successfully written (initially
\* off), a failed write leaves it unchanged and a request for the current
\* state causes no hardware call.
C19_PttDebounced ==
    /\ rigpc = "live" => use_ptt = (rigcfg.want_ptt /\ rigcfg.has_ptt)
    /\ ptt_state = ptt_written
    /\ revent.kind = "set_ptt" =>
          /\ revent.hw # <<>> =>
                /\ rigcfg.want_ptt
                /\ rigcfg.has_ptt
                /\ revent.ptt # revent.before
                /\ revent.hw = <<revent.ptt>>
          /\ revent.ptt = revent.before => revent.hw = <<>>
          /\ revent.result # "Ok" => ptt_state = revent.before
          /\ (revent.hw # <<>> /\ revent.result = "Ok") =>
                ptt_state = revent.ptt

C19_Witness ==
    /\ revent.kind = "set_ptt"
    /\ revent.hw = <<FALSE>>
    /\ revent.result = "Rig"
    /\ ptt_state = TRUE

\* C20: every Rig created in open_rig, including one dropped on an error
\* path after the handle was initialised, is released exactly once: drop
\* calls rig_close iff rig_open had succeeded, then rig_cleanup, and no
\* hardware call follows.
C20_RigReleasedOnce ==
    /\ rigpc = "dropped" =>
          /\ revent.kind \in {"open_rig", "drop"}
          /\ rig_released =
                IF revent.path \in {"WarmUp", "KeyerSpeed", "Ok"}
                THEN <<"rig_close", "rig_cleanup">>
                ELSE <<"rig_cleanup">>
          /\ ~rig_opened
    /\ rigpc \in {"unopened", "failed", "live"} => rig_released = <<>>
    /\ revent.kind \in {"set_ptt", "poll"} => rigpc = "live"

C20_Witness ==
    /\ rigpc = "dropped"
    /\ revent.kind = "open_rig"
    /\ revent.path = "Open"
    /\ rig_released = <<"rig_cleanup">>

----------------------------------------------------------------------------
(* Rig entry points and thread confinement: foreground.rs foreground_init   *)
(* and hamlib_init (lines 27-93), background_process.rs lines 64-72,        *)
(* hamlib.rs lines 604-722.  The Rig value is built by open_rig on the      *)
(* thread that runs foreground_init, moved into BackgroundConfig, and taken *)
(* out of it by background_process.  A rig-handle call in progress is       *)
(* in_call[thread]; the call begins and returns in separate steps so that   *)
(* two threads inside the handle at once would be a reachable state.        *)

\* Capacity of the background queue (foreground.rs line 15 sets 16).
EntryQueueSize == 2

EThreads == {"fg", "bg"}

\* The values of hertz that set_outfreq tells apart: its sign, and for a
\* negative value the request code that (hertz as i32) names.
Requests == {"SETCWMODE", "SETSSBMODE", "SETDIGIMODE", "RESETRIT"}
OutfreqValues ==
    {[sign |-> 1, request |-> "none"], [sign |-> 0, request |-> "none"]}
        \cup {[sign |-> -1, request |-> r] : r \in Requests \cup {"unknown"}}

\* The initial operating modes open_rig and hamlib_init look at.
InitialModes == {"SSBMODE", "DIGIMODE", "CWMODE", "other"}

NoEntryEvent == [kind |-> "none"]

RigItem(op, wait) == [op |-> op, wait |-> wait]
NoRigItem == RigItem("none", FALSE)

\* outfreq_request (hamlib.rs lines 646-690): the rig operation its closure
\* performs, per request code.
RequestOp(request) ==
    CASE request = "SETCWMODE" -> "set_cw_mode"
      [] request = "SETSSBMODE" -> "set_ssb_mode"
      [] request = "SETDIGIMODE" -> "set_mode"
      [] request = "RESETRIT" -> "reset_rit"

\* A mutation of set_outfreq's closures: a value of zero is sent like a
\* frequency.
OutfreqItemsZeroSent(control, hertz) ==
    IF ~control THEN <<>>
    ELSE IF hertz.sign >= 0 THEN <<RigItem("set_freq", FALSE)>>
    ELSE IF hertz.request \in Requests
            THEN <<RigItem(RequestOp(hertz.request), FALSE)>>
    ELSE <<>>

\* set_outfreq (hamlib.rs lines 604-623): the work items it sends.
OutfreqItems(control, hertz) ==
    IF ~control THEN <<>>
    ELSE IF hertz.sign > 0 THEN <<RigItem("set_freq", FALSE)>>
    ELSE IF hertz.sign < 0 /\ hertz.request \in Requests
            THEN <<RigItem(RequestOp(hertz.request), FALSE)>>
    ELSE <<>>

\* set_outfreq(SET*MODE) for the initial operating mode (hamlib.rs lines
\* 284-289, foreground.rs lines 85-90).
InitialModeRequest(mode) ==
    CASE mode = "SSBMODE" -> [sign |-> -1, request |-> "SETSSBMODE"]
      [] mode = "DIGIMODE" -> [sign |-> -1, request |-> "SETDIGIMODE"]
      [] mode = "CWMODE" -> [sign |-> -1, request |-> "SETCWMODE"]
      [] OTHER -> [sign |-> 0, request |-> "none"]

\* A mutation of the Worker's placement: a queued closure is run by the
\* thread that submitted it.
ExecutorIsCaller == "fg"

\* The thread that calls worker.process_sleep and so runs the queued
\* closures (background_process.rs line 82).
Executor == "bg"

EntryInit ==
    /\ trx_control \in BOOLEAN
    /\ fg_stage = "init"
    /\ bg_stage = "unstarted"
    /\ rig_holder = "none"
    /\ bg_queue = <<>>
    /\ bg_item = NoRigItem
    /\ in_call = [t \in EThreads |-> "none"]
    /\ eevent = NoEntryEvent

EntryIdle == EntryInit /\ trx_control = TRUE

\* foreground_init -> hamlib_init (foreground.rs lines 34, 55-67): with rig
\* control disabled no rig is opened; otherwise open_rig starts on the
\* calling thread.
ForegroundInit ==
    /\ fg_stage = "init"
    /\ IF trx_control
          THEN /\ fg_stage' = "opening"
               /\ in_call' = [in_call EXCEPT !["fg"] = "open_rig"]
          ELSE /\ fg_stage' = "ready"
               /\ in_call' = in_call
    /\ eevent' = NoEntryEvent
    /\ UNCHANGED notEntry
    /\ UNCHANGED <<trx_control, bg_stage, rig_holder, bg_queue, bg_item>>

\* open_rig returns (hamlib.rs lines 197-291) and hamlib_init finishes
\* (foreground.rs lines 69-93).  On success open_rig and then hamlib_init
\* each call set_outfreq for the initial mode, and the Rig is held by the
\* calling thread until it is stored in BackgroundConfig; on failure the
\* operator continues without rig control.
OpenRigReturn ==
    /\ fg_stage = "opening"
    /\ \E ok \in BOOLEAN, mode \in InitialModes :
          IF ok
             THEN /\ rig_holder' = "fg"
                  /\ bg_queue' = bg_queue
                        \o OutfreqItems(trx_control, InitialModeRequest(mode))
                        \o OutfreqItems(trx_control, InitialModeRequest(mode))
                  /\ trx_control' = trx_control
             ELSE /\ rig_holder' = "none"
                  /\ trx_control' = FALSE
                  /\ bg_queue' = bg_queue
    /\ in_call' = [in_call EXCEPT !["fg"] = "none"]
    /\ fg_stage' = "ready"
    /\ eevent' = NoEntryEvent
    /\ UNCHANGED notEntry
    /\ UNCHANGED <<bg_stage, bg_item>>

\* background_process takes the BackgroundConfig apart (background_process.rs
\* lines 64-72): the Rig, if any, now belongs to the background thread.
BackgroundProcessStart ==
    /\ fg_stage \in {"ready", "waiting"}
    /\ bg_stage = "unstarted"
    /\ bg_stage' = "idle"
    /\ rig_holder' = IF rig_holder = "fg" THEN "bg" ELSE rig_holder
    /\ eevent' = NoEntryEvent
    /\ UNCHANGED notEntry
    /\ UNCHANGED <<trx_control, fg_stage, bg_queue, bg_item, in_call>>

\* set_outfreq(hertz) (hamlib.rs lines 604-623, 646-690).  handle.send
\* blocks while the queue is full and fails once the Worker is gone (the
\* background thread has unwound), which expect("background send error")
\* turns into a panic; an unknown request code panics too.
SetOutfreq ==
    /\ fg_stage = "ready"
    /\ \E hertz \in OutfreqValues :
          LET items == OutfreqItems(trx_control, hertz)
              unknown == trx_control /\ hertz.sign < 0
                            /\ hertz.request \notin Requests
              alive == bg_stage # "panicked"
              sent == IF alive THEN items ELSE <<>>
          IN /\ Len(bg_queue) + Len(sent) <= EntryQueueSize
             /\ bg_queue' = bg_queue \o sent
             /\ fg_stage' = IF unknown \/ (items # <<>> /\ ~alive)
                               THEN "panicked" ELSE fg_stage
             /\ eevent' = [kind |-> "set_outfreq", hertz |-> hertz,
                           control |-> trx_control, worker |-> alive,
                           enqueued |-> sent, before |-> in_call]
    /\ UNCHANGED notEntry
    /\ UNCHANGED <<trx_control, bg_stage, rig_holder, bg_item, in_call>>

\* set_outfreq_wait, hamlib_keyer_set_speed, hamlib_keyer_stop,
\* hamlib_set_ptt (hamlib.rs lines 625-636, 692-722): schedule_wait sends the
\* closure and blocks on its reply; a failed send panics.
ScheduleRigCall ==
    /\ fg_stage = "ready"
    /\ \E op \in {"set_freq", "set_keyer_speed", "stop_keyer", "set_ptt"} :
          IF bg_stage = "panicked"
             THEN /\ fg_stage' = "panicked"
                  /\ bg_queue' = bg_queue
                  /\ eevent' = [kind |-> "schedule_wait", op |-> op]
             ELSE /\ Len(bg_queue) < EntryQueueSize
                  /\ bg_queue' = Append(bg_queue, RigItem(op, TRUE))
                  /\ fg_stage' = "waiting"
                  /\ eevent' = [kind |-> "schedule_wait", op |-> op]
    /\ UNCHANGED notEntry
    /\ UNCHANGED <<trx_control, bg_stage, rig_holder, bg_item, in_call>>

\* The Worker receives a closure and the closure starts
\* (rig.as_mut().unwrap()...): with no rig the unwrap panics on the thread
\* that runs it, and a caller blocked in schedule_wait sees its reply sender
\* dropped and panics in expect("background send error").
RunItem ==
    /\ bg_stage = "idle"
    /\ bg_queue # <<>>
    /\ bg_queue' = Tail(bg_queue)
    /\ IF rig_holder = "none"
          THEN /\ bg_stage' = "panicked"
               /\ fg_stage' = IF Head(bg_queue).wait THEN "panicked" ELSE fg_stage
               /\ UNCHANGED <<bg_item, in_call>>
          ELSE /\ bg_stage' = "in_item"
               /\ bg_item' = Head(bg_queue)
               /\ in_call' = [in_call EXCEPT ![Executor] = Head(bg_queue).op]
               /\ fg_stage' = fg_stage
    /\ eevent' = NoEntryEvent
    /\ UNCHANGED notEntry
    /\ UNCHANGED <<trx_control, rig_holder>>

\* The closure returns; schedule_wait's caller receives the reply.
ItemReturn ==
    /\ bg_stage = "in_item"
    /\ bg_stage' = "idle"
    /\ in_call' = [in_call EXCEPT ![Executor] = "none"]
    /\ fg_stage' = IF bg_item.wait THEN "ready" ELSE fg_stage
    /\ bg_item' = NoRigItem
    /\ eevent' = NoEntryEvent
    /\ UNCHANGED notEntry
    /\ UNCHANGED <<trx_control, rig_holder, bg_queue>>

\* rig.poll() at the end of a cycle (background_process.rs lines 122-127).
PollBegin ==
    /\ bg_stage = "idle"
    /\ rig_holder = "bg"
    /\ bg_stage' = "in_poll"
    /\ in_call' = [in_call EXCEPT !["bg"] = "poll"]
    /\ eevent' = NoEntryEvent
    /\ UNCHANGED notEntry
    /\ UNCHANGED <<trx_control, fg_stage, rig_holder, bg_queue, bg_item>>

PollReturn ==
    /\ bg_stage = "in_poll"
    /\ bg_stage' = "idle"
    /\ in_call' = [in_call EXCEPT !["bg"] = "none"]
    /\ eevent' = NoEntryEvent
    /\ UNCHANGED notEntry
    /\ UNCHANGED <<trx_control, fg_stage, rig_holder, bg_queue, bg_item>>

EntryNext ==
    \/ ForegroundInit
    \/ OpenRigReturn
    \/ BackgroundProcessStart
    \/ SetOutfreq
    \/ ScheduleRigCall
    \/ RunItem
    \/ ItemReturn
    \/ PollBegin
    \/ PollReturn

----------------------------------------------------------------------------
(* Worker::process_blocking (workqueue.rs lines 95-126), as called by       *)
(* getch_process, wgetch_process and getnstr_process (foreground.rs lines   *)
(* 173-225).  rayon::in_place_scope returns when the spawned task has       *)
(* ended; the calling thread loops on a Selector over the work queue and    *)
(* the done channel.  A flume channel reports Disconnected only when it is  *)
(* empty and every sender is gone.                                          *)

\* Number of work items submitted in a behaviour.
MaxBlockItems == 3

\* Values blocking_op() may return.
BlockResults == {1, 2}

\* A mutation of the Selector's work branch: the queue is looked at only
\* once the blocking operation has signalled that it is done.
WorkReadyAfterDone == pb_queue # <<>> /\ done_ch = 1

\* The Selector's work branch is ready (line 113): an item is queued.
WorkReady == pb_queue # <<>>

\* A mutation of the scope: process_blocking returns without waiting for
\* the spawned task.
ScopeJoinedAtOnce == TRUE

\* rayon::in_place_scope (line 106) returns once the spawned task has ended.
ScopeJoined == pb_helper = "ended"

BlockInit ==
    /\ pb_pc = "idle"
    /\ pb_helper = "none"
    /\ done_ch = 0
    /\ pb_queue = <<>>
    /\ pb_senders = TRUE
    /\ pb_cur = 0
    /\ block_res = None
    /\ recv_error = "Ok"
    /\ pb_ret = None
    /\ pb_submitted = 0
    /\ op_result = None
    /\ pb_log = <<>>

BlockIdle == BlockInit

\* process_blocking is entered: the done channel is created, the task is
\* spawned and the calling thread reaches the Selector (lines 100-112).
ProcessBlocking ==
    /\ pb_pc = "idle"
    /\ pb_pc' = "select"
    /\ pb_helper' = "running"
    /\ UNCHANGED notBlock
    /\ UNCHANGED <<done_ch, pb_queue, pb_senders, pb_cur, block_res,
                   recv_error, pb_ret, pb_submitted, op_result, pb_log>>

\* Another thread submits a work item (schedule_nowait / schedule_raw).
PbSubmit ==
    /\ pb_senders
    /\ pb_submitted < MaxBlockItems
    /\ pb_submitted' = pb_submitted + 1
    /\ pb_queue' = Append(pb_queue, pb_submitted + 1)
    /\ UNCHANGED notBlock
    /\ UNCHANGED <<pb_pc, pb_helper, done_ch, pb_senders, pb_cur, block_res,
                   recv_error, pb_ret, op_result, pb_log>>

\* The last WorkSender of the queue is dropped.
PbSendersDrop ==
    /\ pb_senders
    /\ pb_senders' = FALSE
    /\ UNCHANGED notBlock
    /\ UNCHANGED <<pb_pc, pb_helper, done_ch, pb_queue, pb_cur, block_res,
                   recv_error, pb_ret, pb_submitted, op_result, pb_log>>

\* The spawned task: block_res = Some(blocking_op()); done_s.send(())
\* (lines 107-110).
HelperFinish ==
    /\ pb_helper = "running"
    /\ \E r \in BlockResults :
          /\ block_res' = Some(r)
          /\ op_result' = Some(r)
    /\ done_ch' = done_ch + 1
    /\ pb_helper' = "sent"
    /\ UNCHANGED notBlock
    /\ UNCHANGED <<pb_pc, pb_queue, pb_senders, pb_cur, recv_error, pb_ret,
                   pb_submitted, pb_log>>

\* The spawned task returns.
HelperEnd ==
    /\ pb_helper = "sent"
    /\ pb_helper' = "ended"
    /\ UNCHANGED notBlock
    /\ UNCHANGED <<pb_pc, done_ch, pb_queue, pb_senders, pb_cur, block_res,
                   recv_error, pb_ret, pb_submitted, op_result, pb_log>>

\* Selector, work branch with Ok(work): work(context) starts on the calling
\* thread (lines 113-114).
SelectWork ==
    /\ pb_pc = "select"
    /\ WorkReady
    /\ pb_cur' = Head(pb_queue)
    /\ pb_queue' = Tail(pb_queue)
    /\ pb_log' = Append(pb_log, [item |-> Head(pb_queue), by |-> "caller",
                                 helper |-> pb_helper])
    /\ pb_pc' = "running"
    /\ UNCHANGED notBlock
    /\ UNCHANGED <<pb_helper, done_ch, pb_senders, block_res, recv_error,
                   pb_ret, pb_submitted, op_result>>

\* work(context) returns: ControlFlow::Continue, the loop selects again.
WorkReturn ==
    /\ pb_pc = "running"
    /\ pb_cur' = 0
    /\ pb_pc' = "select"
    /\ UNCHANGED notBlock
    /\ UNCHANGED <<pb_helper, done_ch, pb_queue, pb_senders, block_res,
                   recv_error, pb_ret, pb_submitted, op_result, pb_log>>

\* Selector, work branch with Err: Break(Err(e)) (line 115).
SelectDisconnected ==
    /\ pb_pc = "select"
    /\ pb_queue = <<>>
    /\ ~pb_senders
    /\ recv_error' = "Disconnected"
    /\ pb_pc' = "joining"
    /\ UNCHANGED notBlock
    /\ UNCHANGED <<pb_helper, done_ch, pb_queue, pb_senders, pb_cur,
                   block_res, pb_ret, pb_submitted, op_result, pb_log>>

\* Selector, done branch: Break(Ok(())) (line 117).
SelectDone ==
    /\ pb_pc = "select"
    /\ done_ch > 0
    /\ done_ch' = done_ch - 1
    /\ recv_error' = "Ok"
    /\ pb_pc' = "joining"
    /\ UNCHANGED notBlock
    /\ UNCHANGED <<pb_helper, pb_queue, pb_senders, pb_cur, block_res,
                   pb_ret, pb_submitted, op_result, pb_log>>

\* The scope ends and process_blocking returns
\* (block_res.unwrap(), recv_error.err()) (lines 124-125); unwrap needs a
\* value.
ProcessBlockingReturn ==
    /\ pb_pc = "joining"
    /\ ScopeJoined
    /\ pb_ret' = Some([res |-> block_res, err |-> recv_error,
                       helper |-> pb_helper])
    /\ pb_pc' = "returned"
    /\ UNCHANGED notBlock
    /\ UNCHANGED <<pb_helper, done_ch, pb_queue, pb_senders, pb_cur,
                   block_res, recv_error, pb_submitted, op_result, pb_log>>

\* What the calling thread does inside process_blocking.
CallerStep ==
    \/ SelectWork
    \/ WorkReturn
    \/ SelectDisconnected
    \/ SelectDone
    \/ ProcessBlockingReturn

BlockNext ==
    \/ ProcessBlocking
    \/ PbSubmit
    \/ PbSendersDrop
    \/ HelperFinish
    \/ HelperEnd
    \/ SelectWork
    \/ WorkReturn
    \/ SelectDisconnected
    \/ SelectDone
    \/ ProcessBlockingReturn

(* C24: process_blocking returns only after the blocking operation has      *)
(* finished and the spawned task has ended; it returns that operation's     *)
(* result, also after a disconnect; queued items are executed by the        *)
(* calling thread only, one at a time, while the call is in progress.       *)
C24_ProcessBlocking ==
    /\ pb_ret # None =>
          /\ pb_ret[1].helper = "ended"
          /\ op_result # None
          /\ pb_ret[1].res = op_result
    /\ \A k \in 1..Len(pb_log) : pb_log[k].by = "caller"
    /\ pb_cur # 0 => pb_pc = "running"
    /\ \A k, l \in 1..Len(pb_log) : k < l => pb_log[k].item < pb_log[l].item

\* The queue reported a disconnect first, an item had been executed, and
\* the call still returned the operation's result.
C24_Witness ==
    /\ pb_ret # None
    /\ pb_ret[1].err = "Disconnected"
    /\ pb_ret[1].res = Some(2)
    /\ Len(pb_log) > 0

(* C25: if the blocking operation never finishes, every item that is        *)
(* queued while process_blocking is in progress is eventually executed by   *)
(* the calling thread.                                                      *)
C25_ItemsServedWhileBlocked ==
    \/ <>(pb_helper \in {"sent", "ended"})
    \/ \A i \in 1..MaxBlockItems :
          ((pb_pc \in {"select", "running"}
               /\ \E k \in 1..Len(pb_queue) : pb_queue[k] = i)
            ~> (\E k \in 1..Len(pb_log) : pb_log[k].item = i))

\* Two items have been executed and the blocking operation is still running.
C25_Witness ==
    /\ Len(pb_log) = 2
    /\ \A k \in 1..Len(pb_log) : pb_log[k].helper = "running"
    /\ pb_helper = "running"

----------------------------------------------------------------------------
(* Worker::process_until and its deadline (workqueue.rs lines 72-93).       *)
(* recv_deadline looks at the queue first: a queued item is returned        *)
(* whether or not the deadline has passed, Timeout is reported only when    *)
(* the queue is empty at or after the deadline.                             *)

DeadlineInit == expired = FALSE

DeadlineIdle == DeadlineInit

\* Time reaches the deadline while process_until is waiting or running an
\* item.
DeadlinePasses ==
    /\ wpc \in {"recv", "running"}
    /\ ~expired
    /\ expired' = TRUE
    /\ UNCHANGED notDeadline
    /\ UNCHANGED queueVars

\* recv_deadline reports Timeout (line 80): the queue is empty and the
\* deadline has been reached.
TimeoutReady == expired /\ wq = <<>>

\* process_until, line 80: break Ok(()); the thread goes on with its cycle.
TimeoutAtDeadline ==
    /\ wpc = "recv"
    /\ TimeoutReady
    /\ \E p \in Producers : ppc[p] # "gone"
    /\ wpc' = "away"
    /\ UNCHANGED notDeadline
    /\ UNCHANGED <<expired, wq, ctx, wcur, workerAlive, ppc, pcall, presult,
                   reply, submitted, lastRun, log>>

\* process_sleep is called again (lines 86-93): a new deadline, sleep from
\* now.
ProcessSleep ==
    /\ wpc = "away"
    /\ wpc' = "recv"
    /\ expired' = FALSE
    /\ UNCHANGED notDeadline
    /\ UNCHANGED <<wq, ctx, wcur, workerAlive, ppc, pcall, presult, reply,
                   submitted, lastRun, log>>

DeadlineNext ==
    \/ \E p \in Producers, fn \in Fns : ScheduleNowait(p, fn)
    \/ \E p \in Producers, fn \in Fns : ScheduleWait(p, fn)
    \/ \E p \in Producers : SendUnblock(p)
    \/ \E p \in Producers : ScheduleWaitReturn(p)
    \/ \E p \in Producers : ProducerDrop(p)
    \/ WorkerRecv
    \/ WorkerRun
    \/ WorkerDisconnected
    \/ DeadlinePasses
    \/ TimeoutAtDeadline
    \/ ProcessSleep

(* C27: process_until takes no item out of the queue once the deadline has  *)
(* passed; at the deadline it returns Ok after at most the item that is in  *)
(* progress.                                                                *)
C27_NothingDequeuedAfterDeadline ==
    [][(wpc = "recv" /\ wpc' = "running") => ~expired]_vars

----------------------------------------------------------------------------
(* Netkeyer::from_globals (netkeyer.rs lines 90-124): the initialisation    *)
(* commands, each ending in `?`.  The application's CW speed is             *)
(* SPEEDS[SPEED] (cw_utils.rs lines 5-19).                                  *)

SPEEDS == <<6, 12, 14, 16, 18, 20, 22, 24, 26, 28, 30, 32, 34, 36, 38, 40,
            42, 44, 46, 48, 50>>

\* GetCWSpeed() for a value of the SPEED index (0-based).
SpeedAt(index) == SPEEDS[index + 1]

\* `n as i8` and `n as u8` of a C int.
AsI8(n) == ((n + 128) % 256) - 128
AsU8(n) == n % 256

\* The globals from_globals reads, besides tlf::sc_volume.
FromGlobalsCfgs ==
    [weight : {0, 51, 300}, tone : {0, 600, 200}, speed_index : {0, 20},
     keyer_device : {<<>>, <<112>>}, txdelay : {0, 51}, sc_sidetone : BOOLEAN]

\* One command: whether its parameter passes the method's check, and its
\* datagram.
NkCommand(valid, dgram) == [valid |-> valid, dgram |-> dgram]

FitsU8(n) == 0 <= n /\ n <= 255

\* A mutation of from_globals: the speed is sent before the tone.
FromGlobalsCommandsSpeedFirst(cfg, volume) ==
    LET weight == AsI8(cfg.weight)
        tone_ok == cfg.tone = 0 \/ (300 <= cfg.tone /\ cfg.tone <= 1000)
    IN  <<NkCommand(TRUE, <<ESC, 48>>),
          NkCommand(-50 <= weight /\ weight <= 50, WriteEsc(55, weight)),
          NkCommand(TRUE, WriteEsc(50, SpeedAt(cfg.speed_index))),
          NkCommand(tone_ok, WriteEsc(51, cfg.tone))>>
        \o (IF cfg.tone # 0
               THEN LET v == IF FitsU8(volume) THEN volume ELSE 70
                    IN  <<NkCommand(v <= 100, WriteEsc(103, v))>>
               ELSE <<>>)
        \o <<NkCommand(-50 <= weight /\ weight <= 50, WriteEsc(55, weight))>>
        \o (IF cfg.keyer_device # <<>>
               THEN <<NkCommand(TRUE, <<ESC, 56>> \o cfg.keyer_device)>>
               ELSE <<>>)
        \o <<NkCommand(AsU8(cfg.txdelay) <= 50, WriteEsc(100, AsU8(cfg.txdelay)))>>
        \o (IF cfg.sc_sidetone THEN <<NkCommand(TRUE, <<ESC, 102, 115>>)>> ELSE <<>>)
        \o (IF FitsU8(volume)
               THEN <<NkCommand(volume <= 100, WriteEsc(103, volume))>>
               ELSE <<>>)

\* The commands from_globals issues, in order (lines 98-121); write_tone
\* (lines 126-145) is set_tone and, for a tone other than 0,
\* set_sidetone_volume.
FromGlobalsCommands(cfg, volume) ==
    LET weight == AsI8(cfg.weight)
        tone_ok == cfg.tone = 0 \/ (300 <= cfg.tone /\ cfg.tone <= 1000)
    IN  <<NkCommand(TRUE, <<ESC, 48>>),
          NkCommand(-50 <= weight /\ weight <= 50, WriteEsc(55, weight)),
          NkCommand(tone_ok, WriteEsc(51, cfg.tone))>>
        \o (IF cfg.tone # 0
               THEN LET v == IF FitsU8(volume) THEN volume ELSE 70
                    IN  <<NkCommand(v <= 100, WriteEsc(103, v))>>
               ELSE <<>>)
        \o <<NkCommand(TRUE, WriteEsc(50, SpeedAt(cfg.speed_index))),
             NkCommand(-50 <= weight /\ weight <= 50, WriteEsc(55, weight))>>
        \o (IF cfg.keyer_device # <<>>
               THEN <<NkCommand(TRUE, <<ESC, 56>> \o cfg.keyer_device)>>
               ELSE <<>>)
        \o <<NkCommand(AsU8(cfg.txdelay) <= 50, WriteEsc(100, AsU8(cfg.txdelay)))>>
        \o (IF cfg.sc_sidetone THEN <<NkCommand(TRUE, <<ESC, 102, 115>>)>> ELSE <<>>)
        \o (IF FitsU8(volume)
               THEN <<NkCommand(volume <= 100, WriteEsc(103, volume))>>
               ELSE <<>>)

\* Most commands from_globals can issue.
MaxCommands == 10

\* The `?` after each command: commands k, k+1, ... are run until one
\* fails; a command with a bad parameter sends nothing, the command at
\* position io_fail has its datagram refused by the socket.
RECURSIVE RunCommands(_, _, _)
RunCommands(cmds, k, io_fail) ==
    IF k > Len(cmds) THEN [sent |-> <<>>, res |-> "Ok", failed |-> 0]
    ELSE IF ~cmds[k].valid
            THEN [sent |-> <<>>, res |-> "InvalidParameter", failed |-> k]
    ELSE IF k = io_fail
            THEN [sent |-> <<cmds[k].dgram>>, res |-> "IO", failed |-> k]
    ELSE LET rest == RunCommands(cmds, k + 1, io_fail)
         IN  [rest EXCEPT !.sent = <<cmds[k].dgram>> \o @]

\* Netkeyer::from_globals: it builds the Netkeyer, so it is the session's
\* first call.
NkFromGlobals ==
    /\ nkcall = NoNkCall
    /\ \E cfg \in FromGlobalsCfgs, io_fail \in 0..MaxCommands :
        LET run == RunCommands(FromGlobalsCommands(cfg, sc_volume), 1, io_fail)
        IN  /\ nkcall' = [cmd |-> "from_globals", arg |-> cfg,
                          failed |-> run.failed]
            /\ nksent' = run.sent
            /\ nkres' = run.res
            /\ UNCHANGED sc_volume
            /\ UNCHANGED notNet

FromGlobalsNext == NkFromGlobals

\* The command character of each datagram sent.
CommandChars == [i \in 1..Len(nksent) |-> nksent[i][2]]

IsPrefix(a, b) == Len(a) <= Len(b) /\ a = SubSeq(b, 1, Len(a))

\* The tail of the sequence, common to the claim and to the code: device,
\* TX delay, sidetone device, sidetone volume, optional steps left out.
OrderTail(cfg) ==
    (IF cfg.keyer_device # <<>> THEN <<56>> ELSE <<>>) \o <<100>>
      \o (IF cfg.sc_sidetone THEN <<102>> ELSE <<>>)
      \o (IF FitsU8(sc_volume) THEN <<103>> ELSE <<>>)

\* What from_globals' run must look like for a given order of command
\* characters: a prefix of it, all of it exactly when the call succeeds, and
\* nothing after the command that failed.
FollowsOrder(order) ==
    /\ IsPrefix(CommandChars, order)
    /\ nkres = "Ok" <=> nkcall.failed = 0
    /\ nkres = "Ok" => CommandChars = order
    /\ nkcall.failed # 0
          => Len(nksent) = nkcall.failed - (IF nkres = "IO" THEN 0 ELSE 1)

(* C28, as stated: from_globals sends reset, weight, tone, speed, weight,   *)
(* device, TX delay, sidetone device, sidetone volume in this order,        *)
(* optional steps skipped, and stops at the first command that fails.       *)
C28_FromGlobalsOrder ==
    nkcall.cmd = "from_globals" =>
       FollowsOrder(<<48, 55, 51, 50, 55>> \o OrderTail(nkcall.arg))

(* C28, amended: the order is reset, weight, tone, then for a tone other    *)
(* than 0 a sidetone volume (write_tone's), speed, weight, device, TX       *)
(* delay, sidetone device, sidetone volume; optional steps skipped; the     *)
(* first command that fails ends the initialisation.                        *)
C28_FromGlobalsOrderWithToneVolume ==
    nkcall.cmd = "from_globals" =>
       FollowsOrder(<<48, 55, 51>>
                      \o (IF nkcall.arg.tone # 0 THEN <<103>> ELSE <<>>)
                      \o <<50, 55>> \o OrderTail(nkcall.arg))

\* A full initialisation with every optional step: ten datagrams.
C28_Witness ==
    /\ nkcall.cmd = "from_globals"
    /\ nkres = "Ok"
    /\ Len(nksent) = 10
    /\ nksent[4] = WriteEsc(103, 55)

----------------------------------------------------------------------------
(* The Netkeyer of newtlf/netkeyer.rs: it keeps the sidetone volume in the  *)
(* field sc_volume (an AtomicI8, -1 when nothing is cached), written by     *)
(* set_sidetone_volume and read by write_tone.                              *)

CacheInit ==
    /\ nkcall = NoNkCall
    /\ nkres = "none"
    /\ nksent = <<>>
    /\ sc_volume = -1
    /\ last_volume = [requested |-> None, accepted |-> None]

CacheIdle == last_volume = [requested |-> None, accepted |-> None]

\* volume.try_into().ok().unwrap_or(-1) for a u8 stored in an i8 (line 229).
CachedAs(volume) == IF volume <= 127 THEN volume ELSE -1

\* set_sidetone_volume (lines 227-239): the cache is written first, then the
\* range is checked, then the datagram is sent.
NtSetSidetoneVolume ==
    \E volume \in VolumeInputs :
        /\ nkcall' = [cmd |-> "set_sidetone_volume", arg |-> volume]
        /\ sc_volume' = CachedAs(volume)
        /\ last_volume' = [requested |-> Some(volume),
                           accepted |-> IF volume > 100
                                           THEN last_volume.accepted
                                           ELSE Some(volume)]
        /\ IF volume > 100
              THEN nksent' = <<>> /\ nkres' = "InvalidParameter"
              ELSE nksent' = <<WriteEsc(103, volume)>> /\ nkres' \in {"Ok", "IO"}
        /\ UNCHANGED notCache

\* write_tone (lines 77-94): set_tone (lines 122-132), then for a tone other
\* than 0 set_sidetone_volume with the cached volume, 70 when the cache
\* holds a negative value.
NtWriteTone ==
    \E tone \in ToneInputs :
        /\ nkcall' = [cmd |-> "write_tone", arg |-> tone]
        /\ last_volume' = last_volume
        /\ UNCHANGED notCache
        /\ IF tone # 0 /\ ~(300 <= tone /\ tone <= 1000)
              THEN /\ nksent' = <<>>
                   /\ nkres' = "InvalidParameter"
                   /\ sc_volume' = sc_volume
              ELSE \/ /\ nksent' = <<WriteEsc(51, tone)>>
                      /\ nkres' = "IO"
                      /\ sc_volume' = sc_volume
                   \/ /\ tone = 0
                      /\ nksent' = <<WriteEsc(51, tone)>>
                      /\ nkres' = "Ok"
                      /\ sc_volume' = sc_volume
                   \/ /\ tone # 0
                      /\ LET vol == IF sc_volume >= 0 THEN sc_volume ELSE 70
                         IN  /\ sc_volume' = CachedAs(vol)
                             /\ IF vol > 100
                                   THEN /\ nksent' = <<WriteEsc(51, tone)>>
                                        /\ nkres' = "InvalidParameter"
                                   ELSE /\ nksent' = <<WriteEsc(51, tone),
                                                       WriteEsc(103, vol)>>
                                        /\ nkres' \in {"Ok", "IO"}

CacheNext ==
    \/ NtSetSidetoneVolume
    \/ NtWriteTone

\* The volumes the claim's "last set" can mean: the argument of the last
\* call, or of the last call that was accepted; 70 when there was none.
LastSetVolumes ==
    IF last_volume.requested = None THEN {70}
    ELSE {last_volume.requested[1]}
            \cup (IF last_volume.accepted = None
                     THEN {} ELSE {last_volume.accepted[1]})

(* C29: write_tone(t) with an accepted t other than 0 and no socket error   *)
(* sends the tone datagram followed by exactly one sidetone-volume datagram *)
(* carrying the volume last set through set_sidetone_volume, 70 if none     *)
(* was set; write_tone(0) sends only the tone datagram.                     *)
C29_ToneResendsVolume ==
    (/\ nkcall.cmd = "write_tone"
     /\ nkres # "IO"
     /\ nkcall.arg = 0 \/ (300 <= nkcall.arg /\ nkcall.arg <= 1000))
    => IF nkcall.arg = 0
          THEN nksent = <<WriteEsc(51, 0)>>
          ELSE \E v \in LastSetVolumes :
                  nksent = <<WriteEsc(51, nkcall.arg), WriteEsc(103, v)>>

(* C38: a Netkeyer command rejected with InvalidParameter leaves the        *)
(* cached sidetone volume as it was, so a later write_tone with an accepted *)
(* tone other than 0 re-sends the last accepted volume (70 when none was    *)
(* accepted) and succeeds unless the socket fails.                          *)
C38_RejectedCommandKeepsCache ==
    /\ [][nkres' = "InvalidParameter" => sc_volume' = sc_volume]_vars
    /\ []((/\ nkcall.cmd = "write_tone"
           /\ 300 <= nkcall.arg /\ nkcall.arg <= 1000
           /\ nkres # "IO")
          => /\ nkres = "Ok"
             /\ nksent = <<WriteEsc(51, nkcall.arg),
                           WriteEsc(103, IF last_volume.accepted = None
                                            THEN 70
                                            ELSE last_volume.accepted[1])>>)

----------------------------------------------------------------------------
(* CW speed: cw_utils.rs, and the keyer part of open_rig (hamlib.rs lines   *)
(* 274-282) with get_keyer_speed / set_keyer_speed (lines 297-331).  The    *)
(* rig reports a keyer speed of 0 or more; a successful rig_set_level       *)
(* leaves the rig at the value written.                                     *)

\* Keyer speeds the rig may report.
MaxRigSpeed == 60
RigSpeeds == 0..MaxRigSpeed

\* Arguments tried for SetCWSpeed.
WpmInputs == {0, 5, 6, 7, 12, 13, 49, 50, 51, 60}

NoSpeedEvent == [kind |-> "none"]

\* A mutation of speed_conversion: the comparison is strict.
speed_conversion_strict(cwspeed) ==
    IF \E i \in 1..Len(SPEEDS) : cwspeed < SPEEDS[i]
       THEN (CHOOSE i \in 1..Len(SPEEDS) :
                /\ cwspeed < SPEEDS[i]
                /\ \A j \in 1..(i - 1) : ~(cwspeed < SPEEDS[j])) - 1
       ELSE Len(SPEEDS) - 1

\* speed_conversion (cw_utils.rs lines 56-61): the position of the first
\* table entry with cwspeed <= entry, the last position when there is none.
speed_conversion(cwspeed) ==
    IF \E i \in 1..Len(SPEEDS) : cwspeed <= SPEEDS[i]
       THEN (CHOOSE i \in 1..Len(SPEEDS) :
                /\ cwspeed <= SPEEDS[i]
                /\ \A j \in 1..(i - 1) : ~(cwspeed <= SPEEDS[j])) - 1
       ELSE Len(SPEEDS) - 1

SpeedInit ==
    /\ SPEED = 10
    /\ rig_keyspd \in RigSpeeds
    /\ keyer_sync = "pending"
    /\ sevent = NoSpeedEvent

SpeedIdle ==
    /\ SPEED = 10
    /\ rig_keyspd = 0
    /\ keyer_sync = "pending"
    /\ sevent = NoSpeedEvent

\* SetCWSpeed (lines 27-29).
SetCWSpeed ==
    \E wpm \in WpmInputs :
        /\ SPEED' = speed_conversion(wpm)
        /\ sevent' = [kind |-> "SetCWSpeed", wpm |-> wpm]
        /\ UNCHANGED <<rig_keyspd, keyer_sync>>
        /\ UNCHANGED notSpeed

\* DecreaseCWSpeed (lines 32-41).
DecreaseCWSpeed ==
    /\ SPEED' = IF SPEED > 0 THEN SPEED - 1 ELSE SPEED
    /\ sevent' = [kind |-> "DecreaseCWSpeed", wpm |-> SpeedAt(SPEED)]
    /\ UNCHANGED <<rig_keyspd, keyer_sync>>
    /\ UNCHANGED notSpeed

\* A mutation of IncreaseCWSpeed: the index does not saturate.
IncreaseCWSpeedUnbounded ==
    /\ SPEED' = SPEED + 1
    /\ sevent' = [kind |-> "IncreaseCWSpeed", wpm |-> SpeedAt(SPEED)]
    /\ UNCHANGED <<rig_keyspd, keyer_sync>>
    /\ UNCHANGED notSpeed

\* IncreaseCWSpeed (lines 44-53).
IncreaseCWSpeed ==
    /\ SPEED' = IF SPEED < Len(SPEEDS) - 1 THEN SPEED + 1 ELSE SPEED
    /\ sevent' = [kind |-> "IncreaseCWSpeed", wpm |-> SpeedAt(SPEED)]
    /\ UNCHANGED <<rig_keyspd, keyer_sync>>
    /\ UNCHANGED notSpeed

\* open_rig with use_keyer (hamlib.rs lines 274-282): read the rig's speed,
\* SetCWSpeed, GetCWSpeed, and write the rounded speed to the rig when it
\* differs; either rig call may fail, which fails open_rig.
OpenRigKeyerSpeed ==
    /\ keyer_sync = "pending"
    /\ \E get_ok, set_ok \in BOOLEAN :
          IF ~get_ok
             THEN /\ keyer_sync' = "failed"
                  /\ sevent' = [kind |-> "open_rig", reported |-> None,
                                wrote |-> None, result |-> "Err"]
                  /\ UNCHANGED <<SPEED, rig_keyspd>>
             ELSE LET rig_speed == rig_keyspd
                      index == speed_conversion(rig_speed)
                      rounded_speed == SpeedAt(index)
                  IN  /\ SPEED' = index
                      /\ IF rig_speed # rounded_speed
                            THEN /\ rig_keyspd' = IF set_ok THEN rounded_speed
                                                            ELSE rig_keyspd
                                 /\ keyer_sync' = IF set_ok THEN "done" ELSE "failed"
                                 /\ sevent' = [kind |-> "open_rig",
                                               reported |-> Some(rig_speed),
                                               wrote |-> Some(rounded_speed),
                                               result |-> IF set_ok THEN "Ok"
                                                                    ELSE "Err"]
                            ELSE /\ rig_keyspd' = rig_keyspd
                                 /\ keyer_sync' = "done"
                                 /\ sevent' = [kind |-> "open_rig",
                                               reported |-> Some(rig_speed),
                                               wrote |-> None,
                                               result |-> "Ok"]
    /\ UNCHANGED notSpeed

\* Keyer speeds the rig reports to a poll; the operator may have turned the
\* rig's speed knob since the last read.
PolledSpeeds == {0, 6, 13, 14, 20, 30, 50, 51}

\* poll_keyer (hamlib.rs lines 514-534) in a session that uses the rig's
\* keyer: read the rig's speed; when it differs from GetCWSpeed, SetCWSpeed
\* it, and call display_cw_speed when the rounded speed differs from the
\* rig's.
PollKeyer ==
    /\ keyer_sync = "done"
    /\ \E get_ok \in BOOLEAN, rig_speed \in PolledSpeeds :
          IF ~get_ok
             THEN /\ sevent' = [kind |-> "poll_keyer", before |-> SpeedAt(SPEED),
                                reported |-> None, redraw |-> None,
                                result |-> "Err"]
                  /\ UNCHANGED <<SPEED, rig_keyspd>>
             ELSE LET changed == SpeedAt(SPEED) # rig_speed
                      index == IF changed THEN speed_conversion(rig_speed)
                                          ELSE SPEED
                      new_speed == SpeedAt(index)
                  IN  /\ rig_keyspd' = rig_speed
                      /\ SPEED' = index
                      /\ sevent' = [kind |-> "poll_keyer",
                                    before |-> SpeedAt(SPEED),
                                    reported |-> Some(rig_speed),
                                    redraw |-> IF changed /\ new_speed # rig_speed
                                                  THEN Some(new_speed)
                                                  ELSE None,
                                    result |-> "Ok"]
    /\ UNCHANGED keyer_sync
    /\ UNCHANGED notSpeed

SpeedNext ==
    \/ SetCWSpeed
    \/ DecreaseCWSpeed
    \/ IncreaseCWSpeed
    \/ OpenRigKeyerSpeed
    \/ PollKeyer

\* The table speed a reported speed rounds to: the smallest entry not below
\* it, the largest entry when it is above them all.
TableValues == {SPEEDS[i] : i \in 1..Len(SPEEDS)}
RoundedUp(wpm) ==
    LET above == {v \in TableValues : v >= wpm}
    IN  IF above = {}
           THEN CHOOSE v \in TableValues : \A u \in TableValues : u <= v
           ELSE CHOOSE v \in above : \A u \in above : v <= u

(* C30: after open_rig has succeeded with use_keyer, the application's CW   *)
(* speed is the rig's reported speed rounded to the speed table, the rig's  *)
(* keyer speed equals it, and the rig's speed was written if and only if    *)
(* the reported speed differed from the rounded one.                        *)
C30_KeyerSpeedSynced ==
    (sevent.kind = "open_rig" /\ sevent.result = "Ok") =>
       LET rounded == RoundedUp(sevent.reported[1])
       IN  /\ SpeedAt(SPEED) = rounded
           /\ rig_keyspd = rounded
           /\ (sevent.wrote # None) <=> (sevent.reported[1] # rounded)
           /\ sevent.wrote # None => sevent.wrote[1] = rounded

\* The rig reported 13 wpm: the application shows 14 and 14 was written.
C30_Witness ==
    /\ sevent.kind = "open_rig"
    /\ sevent.result = "Ok"
    /\ sevent.reported = Some(13)
    /\ sevent.wrote = Some(14)
    /\ rig_keyspd = 14
    /\ SPEED = 2

\* One table step up or down from a table speed, staying at the table ends.
StepUp(speed) ==
    LET above == {v \in TableValues : v > speed}
    IN  IF above = {} THEN speed
        ELSE CHOOSE v \in above : \A u \in above : v <= u
StepDown(speed) ==
    LET below == {v \in TableValues : v < speed}
    IN  IF below = {} THEN speed
        ELSE CHOOSE v \in below : \A u \in below : u <= v

C32_RedrawIffSpeedChanged ==
    sevent.kind = "poll_keyer" =>
       /\ (sevent.redraw # None) <=> (SpeedAt(SPEED) # sevent.before)
       /\ sevent.redraw # None => sevent.redraw[1] = SpeedAt(SPEED)

MoreIdle ==
    EntryIdle /\ BlockIdle /\ DeadlineIdle /\ CacheIdle /\ SpeedIdle

(* C40: no work item enqueued by a rig entry point (set_outfreq,            *)
(* set_outfreq_wait, hamlib_set_ptt, hamlib_keyer_set_speed,                *)
(* hamlib_keyer_stop) panics the background thread, whether or not a rig    *)
(* is configured.                                                           *)
C40_EntryPointsNeverPanic == bg_stage # "panicked"

C26_SetOutfreqEnqueues ==
    (eevent.kind = "set_outfreq" /\ eevent.worker) =>
       LET hertz == eevent.hertz
           one == Len(eevent.enqueued) = 1 /\ ~eevent.enqueued[1].wait
       IN /\ (eevent.control /\ hertz.sign > 0)
                => (one /\ eevent.enqueued[1].op = "set_freq")
          /\ (eevent.control /\ hertz.sign < 0 /\ hertz.request \in Requests)
                => (one /\ eevent.enqueued[1].op
                              = CASE hertz.request = "SETCWMODE" -> "set_cw_mode"
                                  [] hertz.request = "SETSSBMODE" -> "set_ssb_mode"
                                  [] hertz.request = "SETDIGIMODE" -> "set_mode"
                                  [] hertz.request = "RESETRIT" -> "reset_rit")
          /\ (~eevent.control \/ hertz.sign = 0)
                => (eevent.enqueued = <<>> /\ in_call = eevent.before)

\* set_outfreq was called with zero while rig control is on and the queue
\* already holds an item: nothing was added.
C26_Witness ==
    /\ eevent.kind = "set_outfreq"
    /\ eevent.worker
    /\ eevent.control
    /\ eevent.hertz.sign = 0
    /\ Len(bg_queue) = 1

----------------------------------------------------------------------------
(* The background thread's own steps: the scheduler keeps running a thread  *)
(* that can take a step, so the loop's liveness is checked under weak       *)
(* fairness of BgStep.  A thread blocked on START_COND has no step.         *)
BgStep ==
    \/ BackgroundProcessWait
    \/ BackgroundProcessResume
    \/ BgProcessSleep
    \/ BgFldigi
    \/ BgSimulatorAndKeyer
    \/ BgLan
    \/ BgPoll

(* C33: every call to stop_background_process eventually returns, under    *)
(* fair scheduling of both threads and provided each step of the            *)
(* background thread's cycle terminates (none of them panics).              *)
C33_StopReturns ==
    [](bgpc # "panicked") =>
       ((fgpc \in {"stop_wait", "stop_woken"}) ~> (fgpc = "run" /\ quiesced))

\* A stop call that had to wait through a running cycle: the thread has
\* parked and woken the caller, which is about to return.
C33_Witness ==
    /\ fgpc = "stop_woken"
    /\ stopped
    /\ bgpc = "parked"
    /\ bgdid \in {"poll", "poll_err", "lan"}

(* C34: no wake-up is lost at the gate.  When start_background_process was  *)
(* called while the background thread is at the gate, the thread eventually *)
(* clears stopped and goes on to its next cycle unless a stop is requested  *)
(* again first; a stop requested before the thread resumed returns at once  *)
(* and the thread stays at the gate, stopped, while the request stands.     *)
C34_NoLostWakeup ==
    /\ (bgpc \in GatePcs /\ ~stop_request)
          ~> ((bgpc = "process" /\ ~stopped) \/ stop_request)
    /\ [][(bgpc \in GatePcs /\ ~stop_request /\ stop_request')
             => (fgpc' = "run" /\ quiesced' /\ bgpc' \in GatePcs)]_vars
    /\ [][(bgpc \in GatePcs /\ stop_request')
             => (bgpc' \in GatePcs /\ stopped')]_vars

\* The thread parked after a full cycle and start_background_process has
\* been called since: it is woken and the request is clear.
C34_Witness ==
    /\ bgpc = "woken"
    /\ ~stop_request
    /\ stopped
    /\ bgdid \in {"poll", "poll_err", "lan"}

----------------------------------------------------------------------------
(* schedule_wait on the background queue together with the gate             *)
(* (workqueue.rs lines 48-53, background_process.rs lines 45-88).  One      *)
(* foreground thread calls start_background_process,                        *)
(* stop_background_process and the rig entry points one after the other;    *)
(* the background thread runs queued closures only inside process_sleep,    *)
(* which it reaches only after background_process_wait has let it through.  *)

\* The foreground thread is between calls.
FgFree == fg_stage = "ready" /\ fgpc = "run"

\* The background thread exists and is not inside a closure.
BgFree == bg_stage = "idle"

CallStop == FgFree /\ StopBackgroundProcess
CallStart == FgFree /\ StartBackgroundProcess
CallScheduleWait == FgFree /\ ScheduleRigCall

\* process_sleep: recv_deadline hands over a queued closure ...
CallRunItem == bgpc = "process" /\ RunItem
\* ... and process_until returns once the queue is empty at the deadline.
CallProcessSleepEnd == BgFree /\ bg_queue = <<>> /\ BgProcessSleep

CallGateWait == BgFree /\ BackgroundProcessWait
CallGateResume == BgFree /\ BackgroundProcessResume
CallFldigi == BgFree /\ BgFldigi
CallSimulatorAndKeyer == BgFree /\ BgSimulatorAndKeyer
CallLan == BgFree /\ BgLan
CallPoll == BgFree /\ BgPoll

\* The background thread's steps in this composition.
BgCallStep ==
    \/ BackgroundProcessStart
    \/ CallGateWait
    \/ CallGateResume
    \/ CallRunItem
    \/ ItemReturn
    \/ CallProcessSleepEnd
    \/ CallFldigi
    \/ CallSimulatorAndKeyer
    \/ CallLan
    \/ CallPoll

GateCallNext ==
    \/ ForegroundInit
    \/ OpenRigReturn
    \/ BackgroundProcessStart
    \/ CallStop
    \/ StopRecheck
    \/ CallStart
    \/ CallScheduleWait
    \/ CallGateWait
    \/ CallGateResume
    \/ CallRunItem
    \/ ItemReturn
    \/ CallProcessSleepEnd
    \/ CallFldigi
    \/ CallSimulatorAndKeyer
    \/ CallLan
    \/ CallPoll

(* C35: every schedule_wait call the foreground thread makes on the         *)
(* background queue eventually returns, in every state reachable through    *)
(* start_background_process / stop_background_process, provided the         *)
(* background thread does not panic.                                        *)
C35_ScheduleWaitReturns ==
    [](bgpc # "panicked" /\ bg_stage # "panicked") =>
       ((fg_stage = "waiting") ~> (fg_stage = "ready"))

(* C21: once every WorkSender has been dropped, the background thread       *)
(* eventually leaves its loop.  The claim also asks that it ends through    *)
(* the disconnect branch and not by a panic; the formula asks only that a   *)
(* thread that is still alive ends at all, which the claim implies.         *)
C21_DisconnectEndsThread ==
    (~sendersAlive /\ bgpc # "panicked") ~> (bgpc \in {"exited", "panicked"})

(* C22: a failed poll is followed by the next cycle's gate, and the only    *)
(* step that ends the loop is process_sleep reporting a disconnected queue. *)
C22_OnlyDisconnectEndsLoop ==
    [][/\ (bgpc = "poll" /\ bgdid' = "poll_err") => bgpc' = "wait"
       /\ (bgpc' \in {"exited", "panicked"} /\ bgpc' # bgpc)
             => (bgpc = "process" /\ ~sendersAlive /\ bgpc' = "exited")]_vars

----------------------------------------------------------------------------
(* Specifications, one per subsystem.                                       *)

GateIdle == GateInit /\ gateCfg = [rig |-> TRUE, fldigi |-> FALSE]

InitGate ==
    /\ GateInit
    /\ QueueInit
    /\ KeyerIdle
    /\ NetIdle
    /\ RigIdle
    /\ BandIdle
    /\ MoreIdle

SpecGate == InitGate /\ [][GateNext]_vars

SpecGateFair == InitGate /\ [][GateNext]_vars /\ WF_vars(BgStep)

\* Both threads are scheduled fairly: the background thread's steps, and the
\* foreground thread's re-check once it was woken inside wait_while.
SpecGateFairBoth ==
    InitGate /\ [][GateNext]_vars /\ WF_vars(BgStep) /\ WF_vars(StopRecheck)

\* A session with a rig: the gate and the rig entry points together.
InitGateCall ==
    /\ GateInit
    /\ gateCfg.rig
    /\ QueueInit
    /\ KeyerIdle
    /\ NetIdle
    /\ RigIdle
    /\ BandIdle
    /\ EntryInit
    /\ BlockIdle
    /\ DeadlineIdle
    /\ CacheIdle
    /\ SpeedIdle

SpecGateCall ==
    InitGateCall /\ [][GateCallNext]_vars
        /\ WF_vars(BgCallStep) /\ WF_vars(StopRecheck)

InitQueue ==
    /\ GateIdle
    /\ QueueInit
    /\ KeyerIdle
    /\ NetIdle
    /\ RigIdle
    /\ BandIdle
    /\ MoreIdle

SpecQueue == InitQueue /\ [][QueueNext]_vars

InitKeyer ==
    /\ GateIdle
    /\ QueueInit
    /\ KeyerInit
    /\ NetIdle
    /\ RigIdle
    /\ BandIdle
    /\ MoreIdle

SpecKeyer == InitKeyer /\ [][KeyerNext]_vars

InitDispatch ==
    /\ GateIdle
    /\ QueueInit
    /\ DispatchInit
    /\ NetIdle
    /\ RigIdle
    /\ BandIdle
    /\ MoreIdle

SpecDispatch == InitDispatch /\ [][DispatchNext]_vars

InitNet ==
    /\ GateIdle
    /\ QueueInit
    /\ KeyerIdle
    /\ NetInit
    /\ RigIdle
    /\ BandIdle
    /\ MoreIdle

SpecNet == InitNet /\ [][NetNext]_vars

InitBand ==
    /\ GateIdle
    /\ QueueInit
    /\ KeyerIdle
    /\ NetIdle
    /\ RigIdle
    /\ BandInit
    /\ MoreIdle

SpecBand == InitBand /\ [][BandNext]_vars

InitRigPoll ==
    /\ GateIdle
    /\ QueueInit
    /\ KeyerStart("CWMODE", "NO_KEYER", "FLDIGI")
    /\ NetIdle
    /\ RigPollInit
    /\ BandIdle
    /\ MoreIdle

SpecRigPoll == InitRigPoll /\ [][RigPollNext]_vars

InitRigLife ==
    /\ GateIdle
    /\ QueueInit
    /\ KeyerIdle
    /\ NetIdle
    /\ RigIdle
    /\ BandIdle
    /\ MoreIdle

SpecRigLife == InitRigLife /\ [][RigLifeNext]_vars

InitEntry ==
    /\ GateIdle
    /\ QueueInit
    /\ KeyerIdle
    /\ NetIdle
    /\ RigIdle
    /\ BandIdle
    /\ EntryInit
    /\ BlockIdle
    /\ DeadlineIdle
    /\ CacheIdle
    /\ SpeedIdle

SpecEntry == InitEntry /\ [][EntryNext]_vars

InitBlock ==
    /\ GateIdle
    /\ QueueInit
    /\ KeyerIdle
    /\ NetIdle
    /\ RigIdle
    /\ BandIdle
    /\ EntryIdle
    /\ BlockInit
    /\ DeadlineIdle
    /\ CacheIdle
    /\ SpeedIdle

SpecBlock == InitBlock /\ [][BlockNext]_vars

SpecFromGlobals == InitNet /\ [][FromGlobalsNext]_vars

InitCache ==
    /\ GateIdle
    /\ QueueInit
    /\ KeyerIdle
    /\ CacheInit
    /\ RigIdle
    /\ BandIdle
    /\ EntryIdle
    /\ BlockIdle
    /\ DeadlineIdle
    /\ SpeedIdle

SpecCache == InitCache /\ [][CacheNext]_vars

InitSpeed ==
    /\ GateIdle
    /\ QueueInit
    /\ KeyerIdle
    /\ NetIdle
    /\ RigIdle
    /\ BandIdle
    /\ EntryIdle
    /\ BlockIdle
    /\ DeadlineIdle
    /\ CacheIdle
    /\ SpeedInit

SpecSpeed == InitSpeed /\ [][SpeedNext]_vars

InitDeadline ==
    /\ GateIdle
    /\ QueueInit
    /\ KeyerIdle
    /\ NetIdle
    /\ RigIdle
    /\ BandIdle
    /\ EntryIdle
    /\ BlockIdle
    /\ DeadlineInit
    /\ CacheIdle
    /\ SpeedIdle

SpecDeadline == InitDeadline /\ [][DeadlineNext]_vars

\* The calling thread keeps running while it has a step to take.
SpecBlockFair == InitBlock /\ [][BlockNext]_vars /\ WF_vars(CallerStep)

====
